---------------------------- MODULE Spec2Model ----------------------------
(* Feature-flag resolver (featureFlags.ts), environment overrides          *)
(* (envFeatureFlags.ts), performance monitor (featureFlagMonitoring.ts)    *)
(* and audit logger (featureFlagAudit.ts) as one state machine.            *)
(*                                                                         *)
(* Conventions.                                                            *)
(*  - JavaScript values that the code inspects with typeof / == null are   *)
(*    tagged records: [type |-> "boolean", value |-> b],                   *)
(*    [type |-> "array", items |-> <<...>>], [type |-> "string", ...],     *)
(*    [type |-> "function"], [type |-> "undefined"].                       *)
(*  - An optional field of a rule is a field that is missing from the      *)
(*    record.                                                              *)
(*  - A 32-bit unsigned word is a pair <<hi, lo>> of 16-bit halves, since  *)
(*    the model checker's integers are 32-bit signed.                      *)
(*  - percentageOfUsers is [type |-> "number", n |-> n, d |-> d],          *)
(*    standing for the fraction n / d with 0 <= n <= d <= 100.             *)
EXTENDS Integers, Sequences, FiniteSets, TLC

(***************************************************************************)
(* Bounds of the model                                                     *)
(***************************************************************************)
MaxSteps == 3

MaxCalls == 2

MaxTime == 1

\* operations explored from a state in which the buffers are nearly full
MaxFullSteps == 2

VARIABLES
  config,           \* the flag table read by canViewFeature (FEATURE_FLAGS)
  env,              \* process.env restricted to the NEXT_PUBLIC_FF_* keys
  last,             \* the most recent resolver call and its outcome
  baseline,         \* history: outcome of every (flag, user) at start-up
  metrics,          \* FeatureFlagMonitor.metrics
  monitorEnabled,   \* FeatureFlagMonitor.enabled
  calls,            \* measure() calls: position and pending outcome
  insertedMetrics,  \* history: samples pushed since the buffer was empty
  entries,          \* FeatureFlagAuditLogger.entries
  auditEnabled,     \* FeatureFlagAuditLogger.enabled
  insertedEntries,  \* history: entries pushed since the log was empty
  now,              \* the clock read by new Date() and performance.now()
  steps,            \* number of operations performed so far
  held              \* a list that a query returned and its caller still holds

vars == <<config, env, last, baseline, metrics, monitorEnabled, calls,
          insertedMetrics, entries, auditEnabled, insertedEntries, now, steps,
          held>>

(***************************************************************************)
(* 32-bit arithmetic on <<hi, lo>> words                                   *)
(***************************************************************************)
Pow2(n) == 2 ^ n

RECURSIVE Xor16(_, _)
Xor16(a, b) ==
  IF a = 0 THEN b
  ELSE IF b = 0 THEN a
  ELSE (((a % 2) + (b % 2)) % 2) + 2 * Xor16(a \div 2, b \div 2)

Xor32(x, y) == <<Xor16(x[1], y[1]), Xor16(x[2], y[2])>>

Add32(x, y) ==
  LET lo == x[2] + y[2]
      hi == x[1] + y[1] + (lo \div 65536)
  IN  <<hi % 65536, lo % 65536>>

\* x * y mod 2^32, by bytes so that no partial product exceeds 2^31
Mul32(x, y) ==
  LET a0 == x[2] % 256
      a1 == x[2] \div 256
      a2 == x[1] % 256
      a3 == x[1] \div 256
      b0 == y[2] % 256
      b1 == y[2] \div 256
      b2 == y[1] % 256
      b3 == y[1] \div 256
      t0 == a0 * b0
      t1 == a0 * b1 + a1 * b0 + (t0 \div 256)
      t2 == a0 * b2 + a1 * b1 + a2 * b0 + (t1 \div 256)
      t3 == a0 * b3 + a1 * b2 + a2 * b1 + a3 * b0 + (t2 \div 256)
  IN  <<(t3 % 256) * 256 + (t2 % 256), (t1 % 256) * 256 + (t0 % 256)>>

\* rotate left by r, 0 < r < 16
Rotl32(x, r) ==
  LET k == Pow2(16 - r)
  IN  <<(x[1] % k) * Pow2(r) + (x[2] \div k), (x[2] % k) * Pow2(r) + (x[1] \div k)>>

\* logical shift right by r, 0 < r <= 16
Shr32(x, r) ==
  IF r = 16 THEN <<0, x[1]>>
  ELSE <<x[1] \div Pow2(r), (x[1] % Pow2(r)) * Pow2(16 - r) + (x[2] \div Pow2(r))>>

(***************************************************************************)
(* murmurhash: 32-bit mix hash over the bytes of the key, seed 0           *)
(***************************************************************************)
MurmurC1 == <<52382, 11601>>      \* 0xcc9e2d51

MurmurC2 == <<7047, 13715>>       \* 0x1b873593

MurmurN == <<58964, 27492>>       \* 0xe6546b64

MurmurF1 == <<34283, 51819>>      \* 0x85ebca6b

MurmurF2 == <<49842, 44597>>      \* 0xc2b2ae35

\* one key block: k *= c1; k = rotl(k, 15); k *= c2
MixK(k) == Mul32(Rotl32(Mul32(k, MurmurC1), 15), MurmurC2)

\* little-endian word of up to four bytes
Block(bytes) ==
  LET b(i) == IF i <= Len(bytes) THEN bytes[i] ELSE 0
  IN  <<b(4) * 256 + b(3), b(2) * 256 + b(1)>>

IsWord32(w) == w[1] \in 0..65535 /\ w[2] \in 0..65535

\* The test on h makes the running hash a value before the next block is
\* taken up, which keeps the evaluation depth independent of the key length.
RECURSIVE MurmurBody(_, _)
MurmurBody(h, bytes) ==
  IF IsWord32(h) /\ Len(bytes) >= 4
    THEN LET k  == MixK(Block(SubSeq(bytes, 1, 4)))
             h1 == Rotl32(Xor32(h, k), 13)
             h2 == Add32(Mul32(h1, <<0, 5>>), MurmurN)
         IN  MurmurBody(h2, SubSeq(bytes, 5, Len(bytes)))
    ELSE IF Len(bytes) > 0 THEN Xor32(h, MixK(Block(bytes))) ELSE h

Fmix(h0) ==
  LET h1 == Xor32(h0, Shr32(h0, 16))
      h2 == Mul32(h1, MurmurF1)
      h3 == Xor32(h2, Shr32(h2, 13))
      h4 == Mul32(h3, MurmurF2)
  IN  Xor32(h4, Shr32(h4, 16))

Murmur3(bytes) == Fmix(Xor32(MurmurBody(<<0, 0>>, bytes), <<0, Len(bytes)>>))

(***************************************************************************)
(* Strings that are hashed, as their character codes                       *)
(***************************************************************************)
CharCodes ==
  [ TEST_NEW_PRODUCTS_QUERY |->
      <<84,69,83,84,95,78,69,87,95,80,82,79,68,85,67,84,83,95,81,85,69,82,89>>,
    ADVANCED_ANALYTICS |->
      <<65,68,86,65,78,67,69,68,95,65,78,65,76,89,84,73,67,83>>,
    DISABLED_FEATURE |->
      <<68,73,83,65,66,76,69,68,95,70,69,65,84,85,82,69>>,
    EXPERIMENTAL_FEATURE |->
      <<69,88,80,69,82,73,77,69,78,84,65,76,95,70,69,65,84,85,82,69>>,
    MULTIPLE_ALLOWANCES |->
      <<77,85,76,84,73,80,76,69,95,65,76,76,79,87,65,78,67,69,83>>,
    a |-> <<97>>,
    b |-> <<98>>,
    ae06ma78 |-> <<97,101,48,54,109,97,55,56>> ]

\* the template string `${featureName}-${flagId}`
HashKey(featureName, flagId) ==
  CharCodes[featureName] \o <<45>> \o CharCodes[flagId]

(***************************************************************************)
(* Users                                                                   *)
(***************************************************************************)
UserRoles == {"admin", "tester", "user"}

UserIds == {"a", "b"}

Users == [id : UserIds, role : UserRoles]

\* the ids that are hashed: those of the users above and one more id
HashedIds == UserIds \cup {"ae06ma78"}

\* The hash of every key the resolver can build, computed once.
HashedKeys ==
  {HashKey(f, id) : f \in DOMAIN CharCodes \ HashedIds, id \in HashedIds}

MurmurTable == [key \in HashedKeys |-> Murmur3(key)]

murmurhash(key) ==
  IF key \in HashedKeys THEN MurmurTable[key] ELSE Murmur3(key)

(***************************************************************************)
(* Flag tables                                                             *)
(***************************************************************************)
Bool(b) == [type |-> "boolean", value |-> b]

Arr(items) == [type |-> "array", items |-> items]

Num(n, d) == [type |-> "number", n |-> n, d |-> d]

Str(s) == [type |-> "string", value |-> s]

Undefined == [type |-> "undefined"]

FEATURE_FLAGS ==
  [ TEST_NEW_PRODUCTS_QUERY |-> Bool(TRUE),
    ADVANCED_ANALYTICS      |-> Bool(TRUE),
    DISABLED_FEATURE        |-> Bool(FALSE),
    EXPERIMENTAL_FEATURE    |-> Bool(FALSE),
    MULTIPLE_ALLOWANCES     |->
      Arr(<< [percentageOfUsers |-> Num(1, 4), userRoles |-> Arr(<<"user">>)],
               [userRoles |-> Arr(<<"admin", "tester">>)] >>) ]

FeatureFlagName == DOMAIN FEATURE_FLAGS

\* Other tables of the same shape (Record<string, FeatureFlagRule[] | boolean>)
\* over the same flag names: an empty rule list, rollouts of 0%, 50% and
\* 100%, an empty role list, and the OR-of-rules example.
RolloutFlags ==
  [ TEST_NEW_PRODUCTS_QUERY |-> Arr(<< >>),
    ADVANCED_ANALYTICS      |->
      Arr(<< [userRoles |-> Arr(<<"admin">>)], [percentageOfUsers |-> Num(0, 1)] >>),
    DISABLED_FEATURE        |-> Arr(<< [percentageOfUsers |-> Num(0, 1)] >>),
    EXPERIMENTAL_FEATURE    |-> Arr(<< [percentageOfUsers |-> Num(1, 1)] >>),
    MULTIPLE_ALLOWANCES     |->
      Arr(<< [percentageOfUsers |-> Num(1, 2), userRoles |-> Arr(<<"user", "tester">>)],
               [userRoles |-> Arr(<< >>)] >>) ]

MixedFlags ==
  [ TEST_NEW_PRODUCTS_QUERY |-> Bool(FALSE),
    ADVANCED_ANALYTICS      |-> Arr(<< [percentageOfUsers |-> Num(1, 2)] >>),
    DISABLED_FEATURE        |-> Bool(TRUE),
    EXPERIMENTAL_FEATURE    |->
      Arr(<< [percentageOfUsers |-> Num(0, 1), userRoles |-> Arr(<<"admin">>)],
               [percentageOfUsers |-> Num(3, 4), userRoles |-> Arr(<<"user">>)],
               [userRoles |-> Arr(<<"tester">>)] >>),
    MULTIPLE_ALLOWANCES     |-> Arr(<< [userRoles |-> Arr(<<"user">>)] >>) ]

FlagTables == {FEATURE_FLAGS, RolloutFlags, MixedFlags}

\* names that are not keys of the table: a plain unknown name, and a name
\* that the object inherits from Object.prototype
UnknownNames == {"UNKNOWN_FLAG", "toString"}

PrototypeNames == {"toString"}

\* FEATURE_FLAGS[featureName] as JavaScript evaluates it
Lookup(table, featureName) ==
  IF featureName \in DOMAIN table THEN table[featureName]
  ELSE IF featureName \in PrototypeNames THEN [type |-> "function"]
  ELSE Undefined

(***************************************************************************)
(* Outcomes of a call                                                      *)
(***************************************************************************)
Return(v) == [kind |-> "return", value |-> v]

Throw(e) == [kind |-> "throw", error |-> e]

\* the value of an optional field after destructuring
Field(object, name) == IF name \in DOMAIN object THEN object[name] ELSE Undefined

(***************************************************************************)
(* Environment overrides                                                   *)
(***************************************************************************)
EnvValues == {"", "true", "TRUE", "false"}

\* String.prototype.toLowerCase on the values above
ToLowerCase(s) == IF s = "TRUE" THEN "true" ELSE s

\* process.env[`NEXT_PUBLIC_FF_${flagName}`]
EnvGet(flagName) == IF flagName \in DOMAIN env THEN env[flagName] ELSE Undefined

getEnvOverride(flagName) ==
  LET envValue == EnvGet(flagName)
  IN  IF envValue = Undefined \/ envValue = Str("") THEN Undefined
      ELSE Bool(ToLowerCase(envValue.value) = "true")

(***************************************************************************)
(* Resolver                                                                *)
(***************************************************************************)
MAX_UINT_32 == <<65535, 65535>>

\* w * m for a small factor m, as <<hi, lo>> with lo < 2^16 (hi may exceed 2^16)
Scale(w, m) ==
  LET lo == w[2] * m
  IN  <<w[1] * m + (lo \div 65536), lo % 65536>>

\* hash / max < p, decided exactly as hash * p.d < p.n * max.  The quotient
\* of the two doubles and the double nearest to n / d compare the same way
\* as the exact fractions for the denominators used here.
QuotientLess(hash, max, p) ==
  LET x == Scale(hash, p.d)
      y == Scale(max, p.n)
  IN  x[1] < y[1] \/ (x[1] = y[1] /\ x[2] < y[2])

userIsWithinPercentage(featureName, allowedPercent, flagId) ==
  IF allowedPercent = Undefined THEN TRUE
  ELSE QuotientLess(murmurhash(HashKey(featureName, flagId)), MAX_UINT_32,
                    allowedPercent)

userHasValidRole(allowedRoles, userRole) ==
  \/ allowedRoles = Undefined
  \/ \E i \in 1..Len(allowedRoles.items) : allowedRoles.items[i] = userRole

\* variant: the two conditions of a rule joined by || instead of &&
checkRule_EitherCondition(rule, featureName, user) ==
  \/ userHasValidRole(Field(rule, "userRoles"), user.role)
  \/ userIsWithinPercentage(featureName, Field(rule, "percentageOfUsers"), user.id)

checkRule(rule, featureName, user) ==
  /\ userHasValidRole(Field(rule, "userRoles"), user.role)
  /\ userIsWithinPercentage(featureName, Field(rule, "percentageOfUsers"), user.id)

\* variant: rules.every(...) instead of rules.some(...)
canViewFeature_Every(featureName, user) ==
  LET rules == Lookup(config, featureName)
  IN  IF rules.type = "boolean" THEN Return(rules.value)
      ELSE IF rules.type = "array"
        THEN Return(\A i \in 1..Len(rules.items) :
                      checkRule(rules.items[i], featureName, user))
        ELSE Throw("TypeError")

\* variant: `if (rules === true) return true`, so that the literal false goes
\* on to rules.some(...)
canViewFeature_OnlyTrueLiteral(featureName, user) ==
  LET rules == Lookup(config, featureName)
  IN  IF rules.type = "boolean" /\ rules.value THEN Return(TRUE)
      ELSE IF rules.type = "array"
        THEN Return(\E i \in 1..Len(rules.items) :
                      checkRule(rules.items[i], featureName, user))
        ELSE Throw("TypeError")

\* variant: `rules?.some?.(...) ?? false`, which hides a failed lookup
canViewFeature_SilentFalse(featureName, user) ==
  LET rules == Lookup(config, featureName)
  IN  IF rules.type = "boolean" THEN Return(rules.value)
      ELSE IF rules.type = "array"
        THEN Return(\E i \in 1..Len(rules.items) :
                      checkRule(rules.items[i], featureName, user))
        ELSE Return(FALSE)

\* variant: the environment override is consulted before the table
canViewFeature_EnvFirst(featureName, user) ==
  LET rules    == Lookup(config, featureName)
      override == getEnvOverride(featureName)
  IN  IF override # Undefined THEN Return(override.value)
      ELSE IF rules.type = "boolean" THEN Return(rules.value)
      ELSE IF rules.type = "array"
        THEN Return(\E i \in 1..Len(rules.items) :
                      checkRule(rules.items[i], featureName, user))
        ELSE Throw("TypeError")

\* rules.some(...) on a value that is neither a boolean nor an array raises
\* a TypeError
canViewFeature(featureName, user) ==
  LET rules == Lookup(config, featureName)
  IN  IF rules.type = "boolean" THEN Return(rules.value)
      ELSE IF rules.type = "array"
        THEN Return(\E i \in 1..Len(rules.items) :
                      checkRule(rules.items[i], featureName, user))
        ELSE Throw("TypeError")

(***************************************************************************)
(* Performance monitor                                                     *)
(***************************************************************************)
maxMetrics == 1000

Min(a, b) == IF a < b THEN a ELSE b

Max(a, b) == IF a > b THEN a ELSE b

\* Array.prototype.slice(start) with one argument
Slice(array, start) ==
  LET len == Len(array)
      k   == IF start < 0 THEN Max(len + start, 0) ELSE Min(start, len)
  IN  SubSeq(array, k + 1, len)

\* variant: no trimming after the push
recordMetric_NoTrim(metric) ==
  IF ~monitorEnabled THEN [metrics |-> metrics, pushed |-> << >>]
  ELSE [metrics |-> Append(metrics, metric), pushed |-> <<metric>>]

\* variant: slice(0, maxMetrics), which keeps the oldest samples
recordMetric_KeepOldest(metric) ==
  IF ~monitorEnabled THEN [metrics |-> metrics, pushed |-> << >>]
  ELSE LET after == Append(metrics, metric)
       IN  [metrics |-> IF Len(after) > maxMetrics
                          THEN SubSeq(after, 1, maxMetrics) ELSE after,
            pushed  |-> <<metric>>]

\* variant: recordMetric without `if (!this.enabled) return`
recordMetric_Always(metric) ==
  LET after == Append(metrics, metric)
  IN  [metrics |-> IF Len(after) > maxMetrics
                     THEN Slice(after, 0 - maxMetrics) ELSE after,
       pushed  |-> <<metric>>]

\* recordMetric(metric): the buffer after the call, and the samples that the
\* call handed to this.metrics.push
recordMetric(metric) ==
  IF ~monitorEnabled THEN [metrics |-> metrics, pushed |-> << >>]
  ELSE LET after == Append(metrics, metric)
       IN  [metrics |-> IF Len(after) > maxMetrics
                          THEN Slice(after, 0 - maxMetrics) ELSE after,
            pushed  |-> <<metric>>]

\* an object literal, as the function from its keys to their values
Obj(props) == [type |-> "object", props |-> props]

ErrorObj(message) == [type |-> "Error", message |-> message]

\* error instanceof Error ? error.message : String(error)
ErrorText(error) == IF error.type = "Error" THEN error.message ELSE error.value

\* { ...metadata, error: text }
WithError(metadata, text) ==
  IF metadata = Undefined THEN Obj([k \in {"error"} |-> text])
  ELSE Obj([k \in DOMAIN metadata.props \cup {"error"} |->
              IF k = "error" THEN text ELSE metadata.props[k]])

\* variant: measure without its own test of this.enabled
MeasuredBranch_Always == TRUE

\* the branch measure takes at `if (!this.enabled)`
MeasuredBranch == monitorEnabled

\* variant: the catch block rethrows without recording
MeasureMetric_DropOnError(call) ==
  IF call.fn.kind = "return"
    THEN <<[operationName |-> call.operationName,
            durationMs    |-> now - call.start,
            timestamp     |-> now,
            metadata      |-> call.metadata]>>
    ELSE << >>

\* variant: the catch block records the metadata as given
MeasureMetric_PlainMetadata(call) ==
  <<[operationName |-> call.operationName,
     durationMs    |-> now - call.start,
     timestamp     |-> now,
     metadata      |-> call.metadata]>>

\* the sample measure hands to recordMetric once fn has settled
MeasureMetric(call) ==
  <<[operationName |-> call.operationName,
     durationMs    |-> now - call.start,
     timestamp     |-> now,
     metadata      |-> IF call.fn.kind = "return" THEN call.metadata
                       ELSE WithError(call.metadata, ErrorText(call.fn.error))]>>

\* variant: a failure of fn is swallowed and measure resolves to undefined
MeasureResult_Swallow(call) ==
  IF call.fn.kind = "return" THEN call.fn ELSE Return(Undefined)

\* what measure settles with: `return result` or `throw error`
MeasureResult(call) == call.fn

getMetricsByOperation(operationName) ==
  SelectSeq(metrics, LAMBDA m : m.operationName = operationName)

\* [...this.metrics]
getMetrics == metrics

\* variant: the range leaves out a sample taken at `start`
getMetricsByTimeRange_Exclusive(start, end) ==
  SelectSeq(metrics, LAMBDA m : m.timestamp > start /\ m.timestamp <= end)

\* this.metrics.filter((m) => m.timestamp >= start && m.timestamp <= end)
getMetricsByTimeRange(start, end) ==
  SelectSeq(metrics, LAMBDA m : m.timestamp >= start /\ m.timestamp <= end)

\* list.sort((a, b) => a - b): the numbers in ascending order.  below[i] is
\* the number of elements that come before list[i] in the sorted list, equal
\* numbers keeping their order.
SortAscending(list) ==
  LET n     == Len(list)
      below == SubSeq([i \in 1..n |->
                 Cardinality({j \in 1..n : \/ list[j] < list[i]
                                           \/ list[j] = list[i] /\ j < i})], 1, n)
  IN  SubSeq([k \in 1..n |-> list[CHOOSE i \in 1..n : below[i] = k - 1]], 1, n)

\* list.reduce((sum, d) => sum + d, 0)
RECURSIVE TotalOfPrefix(_, _)
TotalOfPrefix(list, n) ==
  IF n = 0 THEN 0 ELSE TotalOfPrefix(list, n - 1) + list[n]

Total(list) == TotalOfPrefix(list, Len(list))

\* Math.ceil((p / 100) * n) for whole p and n.  For p in {50, 95, 99} and
\* every n up to maxMetrics the double-precision product rounds up to the
\* same whole number as the exact quotient p * n / 100.
CeilPercent(p, n) == (p * n + 99) \div 100

\* variant: Math.floor instead of Math.ceil
getPercentile_Floor(durations, p) ==
  LET index == ((p * Len(durations)) \div 100) - 1
  IN  IF index + 1 \in DOMAIN durations THEN durations[index + 1] ELSE 0

\* getPercentile inside getOperationStats: `durations[index] || 0`, where a
\* missing element and the duration 0 both give 0
getPercentile(durations, p) ==
  LET index == CeilPercent(p, Len(durations)) - 1
  IN  IF index + 1 \in DOMAIN durations THEN durations[index + 1] ELSE 0

\* variant: an operation without samples gets a record of zeros
getOperationStats_ZeroFilled(operationName) ==
  LET selected  == getMetricsByOperation(operationName)
      durations == SortAscending([i \in DOMAIN selected |-> selected[i].durationMs])
      total     == Total(durations)
  IN  IF Len(selected) = 0
        THEN [count |-> 0, avgDuration |-> Num(0, 1), minDuration |-> 0,
              maxDuration |-> 0, totalDuration |-> 0, p50 |-> 0, p95 |-> 0, p99 |-> 0]
        ELSE [count         |-> Len(selected),
              avgDuration   |-> Num(total, Len(selected)),
              minDuration   |-> durations[1],
              maxDuration   |-> durations[Len(durations)],
              totalDuration |-> total,
              p50           |-> getPercentile(durations, 50),
              p95           |-> getPercentile(durations, 95),
              p99           |-> getPercentile(durations, 99)]

\* getOperationStats(operationName); [type |-> "null"] is null and
\* avgDuration is the quotient total / count
getOperationStats(operationName) ==
  LET selected  == getMetricsByOperation(operationName)
      durations == SortAscending([i \in DOMAIN selected |-> selected[i].durationMs])
      total     == Total(durations)
  IN  IF Len(selected) = 0 THEN [type |-> "null"]
      ELSE [count         |-> Len(selected),
            avgDuration   |-> Num(total, Len(selected)),
            minDuration   |-> durations[1],
            maxDuration   |-> durations[Len(durations)],
            totalDuration |-> total,
            p50           |-> getPercentile(durations, 50),
            p95           |-> getPercentile(durations, 95),
            p99           |-> getPercentile(durations, 99)]

\* the operation names of new Set(this.metrics.map((m) => m.operationName))
Operations == {metrics[i].operationName : i \in DOMAIN metrics}

\* getAllStats(): the Map as the function from its keys to their values
getAllStats == [op \in Operations |-> getOperationStats(op)]

(***************************************************************************)
(* Audit logger                                                            *)
(***************************************************************************)
maxEntries == 10000

\* variant: no trimming after the push
addEntry_NoTrim(entry) ==
  [entries |-> Append(entries, entry), pushed |-> <<entry>>]

\* variant: slice(0, maxEntries), which keeps the oldest entries
addEntry_KeepOldest(entry) ==
  LET after == Append(entries, entry)
  IN  [entries |-> IF Len(after) > maxEntries
                     THEN SubSeq(after, 1, maxEntries) ELSE after,
       pushed  |-> <<entry>>]

\* addEntry(entry): the log after the call, and the entries handed to
\* this.entries.push
addEntry(entry) ==
  LET after == Append(entries, entry)
  IN  [entries |-> IF Len(after) > maxEntries
                     THEN Slice(after, 0 - maxEntries) ELSE after,
       pushed  |-> <<entry>>]

\* `${Date.now()}-${Math.random().toString(36).substr(2, 9)}`: the time and
\* the number drawn
generateId(random) == [time |-> now, random |-> random]

\* a string used as a condition: only the empty string is falsy
TruthyString(str) == str # ""

\* a Date object used as a condition: every object is truthy
TruthyDate(date) == TRUE

\* `if (query.<name>)` for a criterion holding a string
GivenString(query, name) == name \in DOMAIN query /\ TruthyString(query[name])

\* `if (query.<name>)` for a criterion holding a Date
GivenDate(query, name) == name \in DOMAIN query /\ TruthyDate(query[name])

getEntriesByFlag(flag) == SelectSeq(entries, LAMBDA entry : entry.flag = flag)

getEntriesByUser(userId) == SelectSeq(entries, LAMBDA entry : entry.user.id = userId)

getEntriesByTimeRange(start, end) ==
  SelectSeq(entries, LAMBDA entry : entry.timestamp >= start /\ entry.timestamp <= end)

getEntriesByAction(action) == SelectSeq(entries, LAMBDA entry : entry.action = action)

getRecentEntries(count) == Slice(entries, 0 - count)

search(query) ==
  LET byFlag   == IF GivenString(query, "flag")
                    THEN SelectSeq(entries, LAMBDA entry : entry.flag = query.flag)
                    ELSE entries
      byUser   == IF GivenString(query, "userId")
                    THEN SelectSeq(byFlag, LAMBDA entry : entry.user.id = query.userId)
                    ELSE byFlag
      byAction == IF GivenString(query, "action")
                    THEN SelectSeq(byUser, LAMBDA entry : entry.action = query.action)
                    ELSE byUser
      byStart  == IF GivenDate(query, "startDate")
                    THEN SelectSeq(byAction, LAMBDA entry : entry.timestamp >= query.startDate)
                    ELSE byAction
      byEnd    == IF GivenDate(query, "endDate")
                    THEN SelectSeq(byStart, LAMBDA entry : entry.timestamp <= query.endDate)
                    ELSE byStart
  IN  byEnd

\* [...this.entries]
getEntries == entries

\* search returns `results`, which is still this.entries itself, and not a
\* new array, when none of its five conditions was taken
searchReturnsEntries(query) ==
  /\ ~GivenString(query, "flag")
  /\ ~GivenString(query, "userId")
  /\ ~GivenString(query, "action")
  /\ ~GivenDate(query, "startDate")
  /\ ~GivenDate(query, "endDate")

Null == [type |-> "null"]

\* record[key] = (record[key] || 0) + 1
Increment(record, key) ==
  IF key \in DOMAIN record
    THEN [record EXCEPT ![key] = @ + 1]
    ELSE [k \in DOMAIN record \cup {key} |-> IF k = key THEN 1 ELSE record[k]]

\* the three accumulators of getStats after the forEach has visited the
\* entries from index i on
RECURSIVE Tally(_, _)
Tally(i, acc) ==
  IF i > Len(entries) THEN acc
  ELSE Tally(i + 1,
             [entriesByAction |-> Increment(acc.entriesByAction, entries[i].action),
              entriesByFlag   |-> Increment(acc.entriesByFlag, entries[i].flag),
              uniqueUsers     |-> acc.uniqueUsers \cup {entries[i].user.id}])

\* Math.min(...numbers) and Math.max(...numbers) of a non-empty list
MathMin(numbers) ==
  CHOOSE n \in {numbers[i] : i \in DOMAIN numbers} :
    \A i \in DOMAIN numbers : n <= numbers[i]

MathMax(numbers) ==
  CHOOSE n \in {numbers[i] : i \in DOMAIN numbers} :
    \A i \in DOMAIN numbers : n >= numbers[i]

\* new Date(milliseconds)
Date(time) == [type |-> "Date", time |-> time]

\* variant: Math.min is used for both ends of the date range
getStats_EndIsMin ==
  LET acc   == Tally(1, [entriesByAction |-> << >>, entriesByFlag |-> << >>,
                         uniqueUsers |-> {}])
      dates == [i \in DOMAIN entries |-> entries[i].timestamp]
  IN  [totalEntries    |-> Len(entries),
       entriesByAction |-> acc.entriesByAction,
       entriesByFlag   |-> acc.entriesByFlag,
       uniqueUsers     |-> Cardinality(acc.uniqueUsers),
       dateRange       |-> [start |-> IF Len(dates) > 0 THEN Date(MathMin(dates)) ELSE Null,
                            end   |-> IF Len(dates) > 0 THEN Date(MathMin(dates)) ELSE Null]]

getStats ==
  LET acc   == Tally(1, [entriesByAction |-> << >>, entriesByFlag |-> << >>,
                         uniqueUsers |-> {}])
      dates == [i \in DOMAIN entries |-> entries[i].timestamp]
  IN  [totalEntries    |-> Len(entries),
       entriesByAction |-> acc.entriesByAction,
       entriesByFlag   |-> acc.entriesByFlag,
       uniqueUsers     |-> Cardinality(acc.uniqueUsers),
       dateRange       |-> [start |-> IF Len(dates) > 0 THEN Date(MathMin(dates)) ELSE Null,
                            end   |-> IF Len(dates) > 0 THEN Date(MathMax(dates)) ELSE Null]]

(***************************************************************************)
(* Snapshots and their comparison                                          *)
(***************************************************************************)
\* Object.keys(FEATURE_FLAGS): the flag names in the order of the literal
ObjectKeys ==
  <<"TEST_NEW_PRODUCTS_QUERY", "ADVANCED_ANALYTICS", "DISABLED_FEATURE",
    "EXPERIMENTAL_FEATURE", "MULTIPLE_ALLOWANCES">>

\* summary[flag] = canViewFeature(flag, user) for every key of FEATURE_FLAGS
getFeatureFlagSummary(user) ==
  [flag \in {ObjectKeys[i] : i \in DOMAIN ObjectKeys} |-> canViewFeature(flag, user).value]

createSnapshot(user) ==
  [user |-> user, flags |-> getFeatureFlagSummary(user), timestamp |-> now]

\* snapshot.flags[flag]: the boolean held for the flag, or undefined
StateOf(snapshot, flag) ==
  IF flag \in DOMAIN snapshot.flags THEN Bool(snapshot.flags[flag]) ELSE Undefined

\* variant: the test of the third branch is inverted
SnapshotBranch_ChangedWhenEqual(state1, state2) ==
  IF state1 = Undefined /\ state2 # Undefined THEN "added"
  ELSE IF state1 # Undefined /\ state2 = Undefined THEN "removed"
  ELSE IF state1 = state2 THEN "changed"
  ELSE "unchanged"

\* the list compareSnapshots pushes a flag to, given its two states
SnapshotBranch(state1, state2) ==
  IF state1 = Undefined /\ state2 # Undefined THEN "added"
  ELSE IF state1 # Undefined /\ state2 = Undefined THEN "removed"
  ELSE IF state1 # state2 THEN "changed"
  ELSE "unchanged"

\* the flags of Object.keys(FEATURE_FLAGS), in that order, that are pushed to
\* the given list
PushedTo(list, snapshot1, snapshot2) ==
  SelectSeq(ObjectKeys,
            LAMBDA flag : SnapshotBranch(StateOf(snapshot1, flag),
                                         StateOf(snapshot2, flag)) = list)

compareSnapshots(snapshot1, snapshot2) ==
  [added     |-> PushedTo("added", snapshot1, snapshot2),
   removed   |-> PushedTo("removed", snapshot1, snapshot2),
   changed   |-> PushedTo("changed", snapshot1, snapshot2),
   unchanged |-> PushedTo("unchanged", snapshot1, snapshot2),
   timeDelta |-> snapshot2.timestamp - snapshot1.timestamp]

(***************************************************************************)
(* Comparison of two users                                                 *)
(***************************************************************************)
\* compareUsers(user1, user2): allFlags.map(...) over Object.keys(FEATURE_FLAGS)
compareUsers(user1, user2) ==
  [i \in DOMAIN ObjectKeys |->
     LET flag       == ObjectKeys[i]
         user1State == canViewFeature(flag, user1).value
         user2State == canViewFeature(flag, user2).value
     IN  [flag       |-> flag,
          user1State |-> user1State,
          user2State |-> user2State,
          different  |-> user1State # user2State]]

getUserDifferences(user1, user2) ==
  SelectSeq(compareUsers(user1, user2), LAMBDA comparison : comparison.different)

\* variant: the flags that differ are counted
calculateSimilarity_CountsDifferent(user1, user2) ==
  LET comparisons == compareUsers(user1, user2)
      sameCount   == Len(SelectSeq(comparisons, LAMBDA c : c.different))
  IN  Num(sameCount * 100, Len(comparisons))

\* (sameCount / comparisons.length) * 100, kept as the fraction
\* (sameCount * 100) / comparisons.length.  For the five flags of the table
\* the double the code computes is exactly this fraction: 0, 20, 40, 60, 80
\* or 100.
calculateSimilarity(user1, user2) ==
  LET comparisons == compareUsers(user1, user2)
      sameCount   == Len(SelectSeq(comparisons, LAMBDA c : ~c.different))
  IN  Num(sameCount * 100, Len(comparisons))

(***************************************************************************)
(* Validation of imported flag definitions                                 *)
(***************************************************************************)
\* An imported object, as the list of [key, value] pairs that Object.entries
\* gives.  A value is a tagged record; a rule object is the record of its
\* fields, so the rule {} is the empty record << >>.
Entries(pairs) == [type |-> "object", entries |-> pairs]

\* typeof rule === "object" && rule !== null: every value but an object
\* carries its tag
IsObject(rule) == "type" \notin DOMAIN rule

\* the messages pushed to errors, with the key and the index they name
DataError == [error |-> "Data must be an object"]

ValueError(key) == [error |-> "Invalid value: must be boolean or array", key |-> key]

RuleError(key, index) ==
  [error |-> "Invalid rule: must be object", key |-> key, index |-> index]

\* variant: a rule object must hold userRoles or percentageOfUsers
RuleErrors_ConditionRequired(key, value) ==
  IF value.type # "array" THEN << >>
  ELSE LET bad == SelectSeq([i \in DOMAIN value.items |-> i],
                    LAMBDA i : \/ ~IsObject(value.items[i])
                               \/ DOMAIN value.items[i] = {})
       IN  [j \in DOMAIN bad |-> RuleError(key, bad[j] - 1)]

\* the errors of value.forEach((rule, index) => ...) for one entry
RuleErrors(key, value) ==
  IF value.type # "array" THEN << >>
  ELSE LET bad == SelectSeq([i \in DOMAIN value.items |-> i],
                    LAMBDA i : ~IsObject(value.items[i]))
       IN  [j \in DOMAIN bad |-> RuleError(key, bad[j] - 1)]

\* the errors pushed for one [key, value] entry
EntryErrors(key, value) ==
  (IF value.type # "boolean" /\ value.type # "array"
     THEN <<ValueError(key)>> ELSE << >>)
  \o RuleErrors(key, value)

\* the errors after Object.entries(data).forEach has visited the first n
\* entries
RECURSIVE ErrorsOfPrefix(_, _)
ErrorsOfPrefix(pairs, n) ==
  IF n = 0 THEN << >>
  ELSE ErrorsOfPrefix(pairs, n - 1) \o EntryErrors(pairs[n][1], pairs[n][2])

\* validateImport(data) for data that is null, a string or a plain object
validateImport(data) ==
  IF data.type # "object" THEN [valid |-> FALSE, errors |-> <<DataError>>]
  ELSE LET errors == ErrorsOfPrefix(data.entries, Len(data.entries))
       IN  [valid |-> Len(errors) = 0, errors |-> errors]

(***************************************************************************)
(* Helper views of the resolver                                            *)
(***************************************************************************)
\* Object.keys(FEATURE_FLAGS).filter((flag) => canViewFeature(flag, user))
getEnabledFeatures(user) ==
  SelectSeq(ObjectKeys, LAMBDA flag : canViewFeature(flag, user).value)

\* variant: the filter of getDisabledFeatures without its negation
getDisabledFeatures_NotNegated(user) ==
  SelectSeq(ObjectKeys, LAMBDA flag : canViewFeature(flag, user).value)

\* Object.keys(FEATURE_FLAGS).filter((flag) => !canViewFeature(flag, user))
getDisabledFeatures(user) ==
  SelectSeq(ObjectKeys, LAMBDA flag : ~canViewFeature(flag, user).value)

(***************************************************************************)
(* The FeatureEnabled component                                            *)
(***************************************************************************)
\* a parameter with a default: the default stands in for undefined
Default(value, default) == IF value = Undefined THEN default ELSE value

\* <>{node}</>
Fragment(node) == [type |-> "fragment", children |-> node]

\* variant: invert is not consulted
FeatureEnabled_IgnoreInvert(props, user) ==
  LET fallback     == Default(Field(props, "fallback"), Null)
      isEnabled    == canViewFeature(props.featureFlag, user).value
      shouldRender == isEnabled
  IN  IF shouldRender THEN Fragment(props.children) ELSE Fragment(fallback)

\* FeatureEnabled(props) when getUser() returns the user
FeatureEnabled(props, user) ==
  LET fallback     == Default(Field(props, "fallback"), Null)
      invert       == Default(Field(props, "invert"), Bool(FALSE))
      isEnabled    == canViewFeature(props.featureFlag, user).value
      shouldRender == IF invert.value THEN ~isEnabled ELSE isEnabled
  IN  IF shouldRender THEN Fragment(props.children) ELSE Fragment(fallback)

(***************************************************************************)
(* Initial state                                                           *)
(***************************************************************************)
CallIds == 1..MaxCalls

\* History of the pushes into a buffer since it was last empty: `fillers`
\* pushes of the filler items 1..fillers, then the items of `log`.
NoInsertions == [fillers |-> 0, log |-> << >>]

Pushed(history, items) == [history EXCEPT !.log = @ \o items]

IdleCall == [pc |-> "idle"]

\* Nothing is held.  A held list is the array a query returned: `list` is
\* its content now, and `live` tells whether it is the very array that
\* this.entries refers to.
NoList == [kind |-> "none", list |-> << >>, live |-> FALSE]

Init ==
  /\ config \in FlagTables
  /\ env = [f \in FeatureFlagName |-> Undefined]
  /\ last = [kind |-> "none"]
  /\ metrics = << >>
  /\ monitorEnabled = FALSE
  /\ calls = [c \in CallIds |-> IdleCall]
  /\ insertedMetrics = NoInsertions
  /\ entries = << >>
  /\ auditEnabled = TRUE
  /\ insertedEntries = NoInsertions
  /\ now = 0
  /\ steps = 0
  /\ held = NoList
  /\ baseline = [f \in FeatureFlagName \cup UnknownNames, u \in Users |->
                   canViewFeature(f, u)]

(***************************************************************************)
(* Resolver operations                                                     *)
(***************************************************************************)
\* a caller evaluates canViewFeature(featureName, user)
Resolve(names, users) ==
  \E featureName \in names, user \in users :
    /\ steps < MaxSteps
    /\ last' = [kind |-> "canViewFeature", flag |-> featureName, user |-> user,
                outcome |-> canViewFeature(featureName, user),
                override |-> getEnvOverride(featureName)]
    /\ steps' = steps + 1
    /\ UNCHANGED <<config, env, baseline, metrics, monitorEnabled, calls,
                   insertedMetrics, entries, auditEnabled, insertedEntries, now,
                   held>>

\* the environment sets or removes NEXT_PUBLIC_FF_<flagName>
SetEnv(names) ==
  \E flagName \in names, v \in {Str(s) : s \in EnvValues} \cup {Undefined} :
    /\ steps < MaxSteps
    /\ env[flagName] # v
    /\ env' = [env EXCEPT ![flagName] = v]
    /\ steps' = steps + 1
    /\ UNCHANGED <<config, last, baseline, metrics, monitorEnabled, calls,
                   insertedMetrics, entries, auditEnabled, insertedEntries, now,
                   held>>

(***************************************************************************)
(* Monitor operations                                                      *)
(***************************************************************************)
AwaitingCalls == {c \in CallIds : calls[c].pc = "awaiting"}

MonitorSetEnabled ==
  \E enabled \in BOOLEAN :
    /\ steps < MaxSteps
    /\ monitorEnabled' = enabled
    \* history: the settings a call in flight has run under
    /\ calls' = [c \in CallIds |->
                   IF c \in AwaitingCalls
                     THEN [calls[c] EXCEPT !.seenEnabled = @ \cup {enabled}]
                     ELSE calls[c]]
    /\ steps' = steps + 1
    /\ UNCHANGED <<config, env, last, baseline, metrics, insertedMetrics,
                   entries, auditEnabled, insertedEntries, now, held>>

\* measure(operationName, fn, metadata) up to `await fn()`: fn has been
\* called and will settle with the outcome `fn`
MeasureCall(names, fns, metadatas) ==
  \E c \in CallIds, operationName \in names, fn \in fns, metadata \in metadatas :
    /\ steps < MaxSteps
    /\ calls[c].pc = "idle"
    /\ \A d \in CallIds : d < c => calls[d].pc # "idle"
    /\ calls' = [calls EXCEPT ![c] =
                   [pc            |-> "awaiting",
                    operationName |-> operationName,
                    fn            |-> fn,
                    metadata      |-> metadata,
                    measured      |-> MeasuredBranch,
                    start         |-> now,
                    startedEnabled |-> monitorEnabled,
                    seenEnabled   |-> {monitorEnabled},
                    pushed        |-> << >>]]
    /\ steps' = steps + 1
    /\ UNCHANGED <<config, env, last, baseline, metrics, monitorEnabled,
                   insertedMetrics, entries, auditEnabled, insertedEntries, now,
                   held>>

\* the rest of measure, run when fn has settled
MeasureSettle ==
  \E c \in AwaitingCalls :
    LET call    == calls[c]
        samples == IF call.measured THEN MeasureMetric(call) ELSE << >>
        rec     == IF samples = << >>
                     THEN [metrics |-> metrics, pushed |-> << >>]
                     ELSE recordMetric(samples[1])
    IN  /\ steps < MaxSteps
        /\ metrics' = rec.metrics
        /\ insertedMetrics' = Pushed(insertedMetrics, rec.pushed)
        /\ calls' = [calls EXCEPT ![c] =
                       [call EXCEPT !.pc = "done", !.pushed = rec.pushed]
                         @@ [result |-> MeasureResult(call)]]
        /\ steps' = steps + 1
        /\ UNCHANGED <<config, env, last, baseline, monitorEnabled, entries,
                       auditEnabled, insertedEntries, now, held>>

\* a caller records a sample by hand
RecordMetric(names, durations, metadatas) ==
  \E operationName \in names, durationMs \in durations, metadata \in metadatas :
    LET rec == recordMetric([operationName |-> operationName,
                             durationMs    |-> durationMs,
                             timestamp     |-> now,
                             metadata      |-> metadata])
    IN  /\ steps < MaxSteps
        /\ metrics' = rec.metrics
        /\ insertedMetrics' = Pushed(insertedMetrics, rec.pushed)
        /\ steps' = steps + 1
        /\ UNCHANGED <<config, env, last, baseline, monitorEnabled, calls,
                       entries, auditEnabled, insertedEntries, now, held>>

MonitorClear ==
  /\ steps < MaxSteps
  /\ metrics' = << >>
  /\ insertedMetrics' = NoInsertions
  /\ steps' = steps + 1
  /\ UNCHANGED <<config, env, last, baseline, monitorEnabled, calls, entries,
                 auditEnabled, insertedEntries, now, held>>

(***************************************************************************)
(* Audit operations                                                        *)
(***************************************************************************)
\* The held list after a log call.  this.entries.push(entry) changes the array
\* in place, so a held list that is that array gets the entry too; when the
\* log then exceeds its capacity, this.entries is assigned a new array (slice)
\* and the held one stays behind with the entry pushed.
HeldAfterPush(rec) ==
  IF ~held.live \/ rec.pushed = << >> THEN held
  ELSE [held EXCEPT !.list = entries \o rec.pushed,
                    !.live = Len(entries \o rec.pushed) <= maxEntries]

\* variant: the log calls without their test of this.enabled
Log_IgnoreEnabled(kind, args, entry) ==
  LET rec == addEntry(entry)
  IN  /\ steps < MaxSteps
      /\ entries' = rec.entries
      /\ insertedEntries' = Pushed(insertedEntries, rec.pushed)
      /\ last' = [kind |-> kind, args |-> args, enabled |-> auditEnabled,
                  pushed |-> rec.pushed]
      /\ steps' = steps + 1
      /\ held' = HeldAfterPush(rec)
      /\ UNCHANGED <<config, env, baseline, metrics, monitorEnabled, calls,
                     insertedMetrics, auditEnabled, now>>

\* The common shape of the four log calls: `if (!this.enabled) return`, then
\* the entry is built and handed to addEntry.  `last` keeps the call, the
\* setting it ran under and the entries it pushed.
Log(kind, args, entry) ==
  LET rec == IF ~auditEnabled THEN [entries |-> entries, pushed |-> << >>]
             ELSE addEntry(entry)
  IN  /\ steps < MaxSteps
      /\ entries' = rec.entries
      /\ insertedEntries' = Pushed(insertedEntries, rec.pushed)
      /\ last' = [kind |-> kind, args |-> args, enabled |-> auditEnabled,
                  pushed |-> rec.pushed]
      /\ steps' = steps + 1
      /\ held' = HeldAfterPush(rec)
      /\ UNCHANGED <<config, env, baseline, metrics, monitorEnabled, calls,
                     insertedMetrics, auditEnabled, now>>

\* variant: logStateChange always records a toggle
StateChangeAction_AlwaysToggle(oldValue, newValue) == "toggle"

\* oldValue === newValue ? "check" : "toggle"
StateChangeAction(oldValue, newValue) ==
  IF oldValue = newValue THEN "check" ELSE "toggle"

LogCheck(flags, users, results, randoms) ==
  \E flag \in flags, user \in users, result \in results, random \in randoms :
    Log("logCheck", [flag |-> flag, user |-> user, result |-> result],
        [id        |-> generateId(random),
         flag      |-> flag,
         user      |-> user,
         action    |-> "check",
         newValue  |-> result,
         timestamp |-> now,
         metadata  |-> Undefined])

LogStateChange(flags, users, changes, randoms) ==
  \E flag \in flags, user \in users, oldValue \in BOOLEAN, newValue \in BOOLEAN,
     random \in randoms :
    /\ <<oldValue, newValue>> \in changes
    /\ Log("logStateChange",
           [flag |-> flag, user |-> user, oldValue |-> oldValue, newValue |-> newValue],
           [id        |-> generateId(random),
            flag      |-> flag,
            user      |-> user,
            action    |-> StateChangeAction(oldValue, newValue),
            oldValue  |-> oldValue,
            newValue  |-> newValue,
            timestamp |-> now,
            metadata  |-> Undefined])

LogEnable(flags, users, randoms) ==
  \E flag \in flags, user \in users, random \in randoms :
    Log("logEnable", [flag |-> flag, user |-> user],
        [id        |-> generateId(random),
         flag      |-> flag,
         user      |-> user,
         action    |-> "enable",
         newValue  |-> TRUE,
         timestamp |-> now,
         metadata  |-> Undefined])

LogDisable(flags, users, randoms) ==
  \E flag \in flags, user \in users, random \in randoms :
    Log("logDisable", [flag |-> flag, user |-> user],
        [id        |-> generateId(random),
         flag      |-> flag,
         user      |-> user,
         action    |-> "disable",
         newValue  |-> FALSE,
         timestamp |-> now,
         metadata  |-> Undefined])

AuditSetEnabled ==
  \E enabled \in BOOLEAN :
    /\ steps < MaxSteps
    /\ auditEnabled' = enabled
    /\ steps' = steps + 1
    /\ UNCHANGED <<config, env, last, baseline, metrics, monitorEnabled, calls,
                   insertedMetrics, entries, insertedEntries, now, held>>

\* clear(): this.entries = [] is a new array; a held one keeps its content
AuditClear ==
  /\ steps < MaxSteps
  /\ entries' = << >>
  /\ insertedEntries' = NoInsertions
  /\ held' = [held EXCEPT !.live = FALSE]
  /\ steps' = steps + 1
  /\ UNCHANGED <<config, env, last, baseline, metrics, monitorEnabled, calls,
                 insertedMetrics, auditEnabled, now>>

\* A call that reads the state and returns: `last` keeps the call and what it
\* returned.
Query(kind, args, outcome) ==
  /\ steps < MaxSteps
  /\ last' = [kind |-> kind, args |-> args, outcome |-> outcome]
  /\ steps' = steps + 1
  /\ UNCHANGED <<config, env, baseline, metrics, monitorEnabled, calls,
                 insertedMetrics, entries, auditEnabled, insertedEntries, now,
                 held>>

Search(queries) == \E query \in queries : Query("search", query, search(query))

GetRecentEntries(counts) ==
  \E count \in counts : Query("getRecentEntries", count, getRecentEntries(count))

GetStats == Query("getStats", << >>, getStats)

GetOperationStats(names) ==
  \E operationName \in names :
    Query("getOperationStats", operationName, getOperationStats(operationName))

CreateSnapshot(users) ==
  \E user \in users : Query("createSnapshot", user, createSnapshot(user))

CompareSnapshots(firsts, seconds) ==
  \E snapshot1 \in firsts, snapshot2 \in seconds :
    Query("compareSnapshots", <<snapshot1, snapshot2>>,
          compareSnapshots(snapshot1, snapshot2))

CompareUsers(users) ==
  \E user1 \in users, user2 \in users :
    Query("compareUsers", <<user1, user2>>, compareUsers(user1, user2))

CalculateSimilarity(users) ==
  \E user1 \in users, user2 \in users :
    Query("calculateSimilarity", <<user1, user2>>, calculateSimilarity(user1, user2))

ValidateImport(datas) ==
  \E data \in datas : Query("validateImport", data, validateImport(data))

\* the percentage condition of a rule is evaluated
UserIsWithinPercentage(names, percents, ids) ==
  \E featureName \in names, allowedPercent \in percents, flagId \in ids :
    Query("userIsWithinPercentage", <<featureName, allowedPercent, flagId>>,
          userIsWithinPercentage(featureName, allowedPercent, flagId))

GetEnabledFeatures(users) ==
  \E user \in users : Query("getEnabledFeatures", user, getEnabledFeatures(user))

GetDisabledFeatures(users) ==
  \E user \in users : Query("getDisabledFeatures", user, getDisabledFeatures(user))

GetFeatureFlagSummary(users) ==
  \E user \in users : Query("getFeatureFlagSummary", user, getFeatureFlagSummary(user))

\* the component is rendered for the current user
RenderFeatureEnabled(propses, users) ==
  \E props \in propses, user \in users :
    Query("FeatureEnabled", <<props, user>>, FeatureEnabled(props, user))

\* A query whose caller keeps the list it returned.  The caller holds the
\* array the query returned: a new one, or (live) this.entries itself.
Hold(kind, args, outcome, live) ==
  /\ steps < MaxSteps
  /\ last' = [kind |-> kind, args |-> args, outcome |-> outcome]
  /\ held' = [kind |-> kind, list |-> outcome, live |-> live]
  /\ steps' = steps + 1
  /\ UNCHANGED <<config, env, baseline, metrics, monitorEnabled, calls,
                 insertedMetrics, entries, auditEnabled, insertedEntries, now>>

GetMetrics == Hold("getMetrics", << >>, getMetrics, FALSE)

GetMetricsByOperation(names) ==
  \E operationName \in names :
    Hold("getMetricsByOperation", operationName,
         getMetricsByOperation(operationName), FALSE)

GetMetricsByTimeRange(times) ==
  \E start \in times, end \in times :
    Hold("getMetricsByTimeRange", <<start, end>>,
         getMetricsByTimeRange(start, end), FALSE)

GetEntries == Hold("getEntries", << >>, getEntries, FALSE)

GetEntriesByFlag(flags) ==
  \E flag \in flags : Hold("getEntriesByFlag", flag, getEntriesByFlag(flag), FALSE)

GetEntriesByUser(ids) ==
  \E userId \in ids : Hold("getEntriesByUser", userId, getEntriesByUser(userId), FALSE)

GetEntriesByTimeRange(times) ==
  \E start \in times, end \in times :
    Hold("getEntriesByTimeRange", <<start, end>>,
         getEntriesByTimeRange(start, end), FALSE)

GetEntriesByAction(actions) ==
  \E action \in actions :
    Hold("getEntriesByAction", action, getEntriesByAction(action), FALSE)

HoldRecentEntries(counts) ==
  \E count \in counts :
    Hold("getRecentEntries", count, getRecentEntries(count), FALSE)

HoldSearch(queries) ==
  \E query \in queries :
    Hold("search", query, search(query), searchReturnsEntries(query))

\* getAllStats returns a Map, not a list: nothing is held
GetAllStats == Query("getAllStats", << >>, getAllStats)

\* The caller changes the list it holds: list.pop().  When the list is
\* this.entries itself, the log loses the entry.
PopHeld ==
  /\ steps < MaxSteps
  /\ held.kind # "none"
  /\ Len(held.list) > 0
  /\ held' = [held EXCEPT !.list = SubSeq(held.list, 1, Len(held.list) - 1)]
  /\ entries' = IF held.live THEN held'.list ELSE entries
  /\ steps' = steps + 1
  /\ UNCHANGED <<config, env, last, baseline, metrics, monitorEnabled, calls,
                 insertedMetrics, auditEnabled, insertedEntries, now>>

\* time passes
Tick ==
  /\ now < MaxTime
  /\ now' = now + 1
  /\ UNCHANGED <<config, env, last, baseline, metrics, monitorEnabled, calls,
                 insertedMetrics, entries, auditEnabled, insertedEntries, steps,
                 held>>

(***************************************************************************)
(* Inputs and specifications                                               *)
(***************************************************************************)
OperationNames == {"canViewFeature", "getFeatureFlagSummary"}

FnOutcomes == {Return(Bool(TRUE)), Throw(ErrorObj("boom")), Throw(Str("oops"))}

Metadatas == {Undefined, Obj([flag |-> "ADVANCED_ANALYTICS"])}

ProbeNames == {"MULTIPLE_ALLOWANCES", "UNKNOWN_FLAG"}

ProbeUsers == {[id |-> "a", role |-> "user"], [id |-> "b", role |-> "user"]}

EnvNames == {"DISABLED_FEATURE", "MULTIPLE_ALLOWANCES"}

ResolveAny == Resolve(FeatureFlagName \cup UnknownNames, Users)

SetEnvAny == SetEnv(EnvNames)

NextResolver == ResolveAny \/ SetEnvAny

\* the resolver and the environment alone, over every flag name and user
SpecResolver == Init /\ [][NextResolver]_vars

MeasureAny == MeasureCall(OperationNames, FnOutcomes, Metadatas)

RecordAny == RecordMetric(OperationNames, {1}, {Undefined})

NextMonitor ==
  \/ MonitorSetEnabled
  \/ MeasureAny
  \/ MeasureSettle
  \/ RecordAny
  \/ MonitorClear
  \/ Tick

\* the monitor alone
SpecMonitor == Init /\ [][NextMonitor]_vars

ResolveProbe == Resolve(ProbeNames, ProbeUsers)

SetEnvProbe == SetEnv({"MULTIPLE_ALLOWANCES"})

MeasureOne == MeasureCall({"canViewFeature"}, {Throw(ErrorObj("boom"))}, {Undefined})

RecordOne == RecordMetric({"canViewFeature"}, {1}, {Undefined})

AuditFlags == {"ADVANCED_ANALYTICS"}

AuditUsers == {[id |-> "a", role |-> "user"]}

LogCheckOne == LogCheck(AuditFlags, AuditUsers, {FALSE}, {0})

LogStateChangeOne == LogStateChange(AuditFlags, AuditUsers, {<<FALSE, TRUE>>}, {0})

LogEnableOne == LogEnable(AuditFlags, AuditUsers, {0})

LogDisableOne == LogDisable(AuditFlags, AuditUsers, {0})

NextBuffers ==
  \/ MonitorSetEnabled
  \/ MeasureOne
  \/ MeasureSettle
  \/ RecordOne
  \/ MonitorClear
  \/ LogCheckOne
  \/ LogStateChangeOne
  \/ LogEnableOne
  \/ LogDisableOne
  \/ AuditSetEnabled
  \/ AuditClear
  \/ Tick

Next ==
  \/ ResolveProbe
  \/ SetEnvProbe
  \/ NextBuffers

\* every operation, interleaved
Spec == Init /\ [][Next]_vars

\* a sample and an entry as earlier calls have recorded them
FillerSample(i) ==
  [operationName |-> "canViewFeature", durationMs |-> i, timestamp |-> 0,
   metadata |-> Undefined]

FillerEntry(i) ==
  [id |-> [time |-> 0, random |-> i], flag |-> "ADVANCED_ANALYTICS",
   user |-> [id |-> "a", role |-> "user"], action |-> "check",
   newValue |-> TRUE, timestamp |-> 0, metadata |-> Undefined]

\* Both collectors enabled and one short of their capacity, as they are after
\* maxMetrics - 1 recordMetric calls and maxEntries - 1 logCheck calls on new
\* collectors.
InitFull ==
  /\ config = FEATURE_FLAGS
  /\ env = [f \in FeatureFlagName |-> Undefined]
  /\ last = [kind |-> "none"]
  /\ metrics = [i \in 1..(maxMetrics - 1) |-> FillerSample(i)]
  /\ monitorEnabled = TRUE
  /\ calls = [c \in CallIds |-> IdleCall]
  /\ insertedMetrics = [fillers |-> maxMetrics - 1, log |-> << >>]
  /\ entries = [i \in 1..(maxEntries - 1) |-> FillerEntry(i)]
  /\ auditEnabled = TRUE
  /\ insertedEntries = [fillers |-> maxEntries - 1, log |-> << >>]
  /\ now = 0
  /\ steps = MaxSteps - MaxFullSteps
  /\ held = NoList
  /\ baseline = [f \in FeatureFlagName \cup UnknownNames, u \in Users |->
                   canViewFeature(f, u)]

\* the two buffers around their capacity
SpecFull == InitFull /\ [][NextBuffers]_vars

\* The audit log alone, with its queries: two flags, two users, the four
\* kinds of entry, and two values of the random part of an id.
UserA == [id |-> "a", role |-> "user"]

UserB == [id |-> "b", role |-> "admin"]

AuditLogFlags == {"ADVANCED_ANALYTICS", "DISABLED_FEATURE"}

Randoms == {0, 1}

LogCheckAudit == LogCheck(AuditLogFlags, {UserA}, {TRUE}, Randoms)

LogStateChangeAudit ==
  LogStateChange({"ADVANCED_ANALYTICS"}, {UserB}, BOOLEAN \X BOOLEAN, {0})

LogEnableAudit == LogEnable({"DISABLED_FEATURE"}, {UserB}, {0})

LogDisableAudit == LogDisable({"DISABLED_FEATURE"}, {UserA}, {0})

\* every query over the criteria below; an absent criterion is an absent field
FlagCriteria == {<< >>} \cup {[flag |-> f] : f \in AuditLogFlags}

UserIdCriteria == {<< >>} \cup {[userId |-> id] : id \in {"", "a", "b"}}

ActionCriteria == {<< >>} \cup {[action |-> a] : a \in {"check", "toggle"}}

StartDateCriteria == {<< >>} \cup {[startDate |-> 1]}

EndDateCriteria == {<< >>} \cup {[endDate |-> 0]}

Queries ==
  {f @@ u @@ a @@ sd @@ ed : f \in FlagCriteria, u \in UserIdCriteria,
     a \in ActionCriteria, sd \in StartDateCriteria, ed \in EndDateCriteria}

SearchSome ==
  Search({<< >>, [userId |-> ""], [flag |-> "ADVANCED_ANALYTICS", userId |-> "b"],
          [action |-> "toggle", startDate |-> 1], [userId |-> "a", endDate |-> 0]})

Counts == {0, 1, 2}

RecentSome == GetRecentEntries(Counts)

NextAudit ==
  \/ LogCheckAudit
  \/ LogStateChangeAudit
  \/ LogEnableAudit
  \/ LogDisableAudit
  \/ AuditSetEnabled
  \/ AuditClear
  \/ SearchSome
  \/ RecentSome
  \/ GetStats
  \/ Tick

InitAudit == Init /\ config = FEATURE_FLAGS

SpecAudit == InitAudit /\ [][NextAudit]_vars

\* The monitor and its statistics, from a state where an enabled monitor has
\* recorded 99 samples of one operation, with the durations 2..100 in no
\* particular order.
StatsSamples == 99

StatsSample(i) ==
  [operationName |-> "canViewFeature", durationMs |-> ((i * 37) % 100) + 1,
   timestamp |-> 0, metadata |-> Undefined]

InitStats ==
  /\ config = FEATURE_FLAGS
  /\ env = [f \in FeatureFlagName |-> Undefined]
  /\ last = [kind |-> "none"]
  /\ metrics = [i \in 1..StatsSamples |-> StatsSample(i)]
  /\ monitorEnabled = TRUE
  /\ calls = [c \in CallIds |-> IdleCall]
  /\ insertedMetrics = [fillers |-> 0, log |-> [i \in 1..StatsSamples |-> StatsSample(i)]]
  /\ entries = << >>
  /\ auditEnabled = TRUE
  /\ insertedEntries = NoInsertions
  /\ now = 0
  /\ steps = 0
  /\ held = NoList
  /\ baseline = [f \in FeatureFlagName \cup UnknownNames, u \in Users |->
                   canViewFeature(f, u)]

StatsNames == OperationNames

RecordStats == RecordMetric(OperationNames, {1, 100}, {Undefined})

GetOperationStatsAny == GetOperationStats(StatsNames)

NextStats ==
  \/ MonitorSetEnabled
  \/ RecordStats
  \/ MonitorClear
  \/ GetOperationStatsAny

SpecStats == InitStats /\ [][NextStats]_vars

\* Snapshots are values that callers keep and hand back.  A caller holds the
\* snapshot it has just created, and snapshots that come from elsewhere:
\* these may lack flags of the table and may hold a flag the table no longer
\* has.
SnapshotFlagNames == {"ADVANCED_ANALYTICS", "RETIRED_FLAG"}

GivenSnapshots ==
  {[user |-> UserA, flags |-> flags, timestamp |-> 0] :
     flags \in UNION {[names -> BOOLEAN] : names \in SUBSET SnapshotFlagNames}}

CreateSnapshotAny == CreateSnapshot(Users)

\* the snapshot just created is compared with itself or with a given one
CompareHeld ==
  /\ last.kind = "createSnapshot"
  /\ CompareSnapshots({last.outcome}, {last.outcome} \cup GivenSnapshots)

CompareGiven == CompareSnapshots(GivenSnapshots, GivenSnapshots)

NextSnapshots ==
  \/ CreateSnapshotAny
  \/ CompareHeld
  \/ CompareGiven
  \/ Tick

SpecSnapshots == Init /\ [][NextSnapshots]_vars

\* The views of the resolver: comparisons of users, the helper lists and the
\* component.  Besides the tables above, a table in which every flag depends
\* on the role, so that two users can differ on every flag.
RoleFlags ==
  [ TEST_NEW_PRODUCTS_QUERY |-> Arr(<< [userRoles |-> Arr(<<"admin">>)] >>),
    ADVANCED_ANALYTICS      |-> Arr(<< [userRoles |-> Arr(<<"admin", "tester">>)] >>),
    DISABLED_FEATURE        |-> Arr(<< [userRoles |-> Arr(<<"admin">>)] >>),
    EXPERIMENTAL_FEATURE    |-> Arr(<< [userRoles |-> Arr(<<"admin", "tester">>)] >>),
    MULTIPLE_ALLOWANCES     |-> Arr(<< [userRoles |-> Arr(<<"admin">>)] >>) ]

ViewTables == FlagTables \cup {RoleFlags}

InitViews ==
  /\ config \in ViewTables
  /\ env = [f \in FeatureFlagName |-> Undefined]
  /\ last = [kind |-> "none"]
  /\ metrics = << >>
  /\ monitorEnabled = FALSE
  /\ calls = [c \in CallIds |-> IdleCall]
  /\ insertedMetrics = NoInsertions
  /\ entries = << >>
  /\ auditEnabled = TRUE
  /\ insertedEntries = NoInsertions
  /\ now = 0
  /\ steps = 0
  /\ held = NoList
  /\ baseline = [f \in FeatureFlagName \cup UnknownNames, u \in Users |->
                   canViewFeature(f, u)]

\* Imported data: null, a string, and objects whose values are booleans,
\* strings and lists of up to two rules, among them the rule {} and values
\* that are not objects.
ImportedRules ==
  {<< >>, [userRoles |-> Arr(<<"admin">>)], [percentageOfUsers |-> Num(1, 2)],
   Null, Str("rule")}

ImportedValues ==
  {Bool(TRUE), Str("on")}
  \cup {Arr(<<r>>) : r \in ImportedRules}
  \cup {Arr(<<r1, r2>>) : r1 \in ImportedRules, r2 \in ImportedRules}

ImportedData ==
  {Null, Str("flags"), Entries(<< >>)}
  \cup {Entries(<<<<"ADVANCED_ANALYTICS", v>>>>) : v \in ImportedValues}
  \cup {Entries(<<<<"DISABLED_FEATURE", Bool(FALSE)>>, <<"MULTIPLE_ALLOWANCES", v>>>>) :
          v \in ImportedValues}

ValidateImportAny == ValidateImport(ImportedData)

CompareUsersAny == CompareUsers(Users)

CalculateSimilarityAny == CalculateSimilarity(Users)

\* the percentage condition alone, for every flag name and hashed id
Percentages == {Undefined, Num(0, 1), Num(1, 4), Num(1, 1)}

UserIsWithinPercentageAny ==
  UserIsWithinPercentage(FeatureFlagName, Percentages, HashedIds)

\* the props of the component: a flag and children, with or without a
\* fallback and invert
Children == Str("Feature Content")

Fallback == Str("Fallback Content")

FallbackProps == {<< >>, [fallback |-> Fallback]}

InvertProps == {<< >>, [invert |-> Bool(FALSE)], [invert |-> Bool(TRUE)]}

ComponentProps ==
  {[featureFlag |-> f, children |-> Children] @@ fb @@ inv :
     f \in FeatureFlagName, fb \in FallbackProps, inv \in InvertProps}

RenderAny == RenderFeatureEnabled(ComponentProps, Users)

GetEnabledFeaturesAny == GetEnabledFeatures(Users)

GetDisabledFeaturesAny == GetDisabledFeatures(Users)

GetFeatureFlagSummaryAny == GetFeatureFlagSummary(Users)

NextViews ==
  \/ GetEnabledFeaturesAny
  \/ GetDisabledFeaturesAny
  \/ GetFeatureFlagSummaryAny
  \/ CompareUsersAny
  \/ CalculateSimilarityAny
  \/ ValidateImportAny
  \/ UserIsWithinPercentageAny
  \/ RenderAny

SpecViews == InitViews /\ [][NextViews]_vars

\* Calls in flight at the same time around the capacity of the buffers: both
\* collectors enabled and one short of their capacity, one measure call
\* already awaiting its operation, and nobody toggling or clearing.
CallInFlight ==
  [pc             |-> "awaiting",
   operationName  |-> "canViewFeature",
   fn             |-> Return(Bool(TRUE)),
   metadata       |-> Undefined,
   measured       |-> TRUE,
   start          |-> 0,
   startedEnabled |-> TRUE,
   seenEnabled    |-> {TRUE},
   pushed         |-> << >>]

InitConcurrent ==
  /\ config = FEATURE_FLAGS
  /\ env = [f \in FeatureFlagName |-> Undefined]
  /\ last = [kind |-> "none"]
  /\ metrics = [i \in 1..(maxMetrics - 1) |-> FillerSample(i)]
  /\ monitorEnabled = TRUE
  /\ calls = [c \in CallIds |-> IF c = 1 THEN CallInFlight ELSE IdleCall]
  /\ insertedMetrics = [fillers |-> maxMetrics - 1, log |-> << >>]
  /\ entries = [i \in 1..(maxEntries - 1) |-> FillerEntry(i)]
  /\ auditEnabled = TRUE
  /\ insertedEntries = [fillers |-> maxEntries - 1, log |-> << >>]
  /\ now = 0
  /\ steps = 0
  /\ held = NoList
  /\ baseline = [f \in FeatureFlagName \cup UnknownNames, u \in Users |->
                   canViewFeature(f, u)]

MeasureConcurrent ==
  MeasureCall({"getFeatureFlagSummary"}, {Throw(ErrorObj("boom"))}, {Undefined})

NextConcurrent ==
  \/ MeasureConcurrent
  \/ MeasureSettle
  \/ LogCheckOne
  \/ LogDisableOne
  \/ Tick

SpecConcurrent == InitConcurrent /\ [][NextConcurrent]_vars

\* Toggling the monitor while calls are in flight, from a new monitor
\* (disabled) and from one that setEnabled(true) has enabled.
InitToggle ==
  /\ config = FEATURE_FLAGS
  /\ env = [f \in FeatureFlagName |-> Undefined]
  /\ last = [kind |-> "none"]
  /\ metrics = << >>
  /\ monitorEnabled \in BOOLEAN
  /\ calls = [c \in CallIds |-> IdleCall]
  /\ insertedMetrics = NoInsertions
  /\ entries = << >>
  /\ auditEnabled = TRUE
  /\ insertedEntries = NoInsertions
  /\ now = 0
  /\ steps = 0
  /\ held = NoList
  /\ baseline = [f \in FeatureFlagName \cup UnknownNames, u \in Users |->
                   canViewFeature(f, u)]

MeasureToggle ==
  MeasureCall({"canViewFeature"}, {Return(Bool(TRUE)), Throw(ErrorObj("boom"))},
              {Undefined})

NextToggle ==
  \/ MonitorSetEnabled
  \/ MeasureToggle
  \/ MeasureSettle
  \/ RecordOne
  \/ Tick

SpecToggle == InitToggle /\ [][NextToggle]_vars

\* The queries of both collectors among appends and clears, with callers that
\* keep the lists they were given: both collectors enabled and empty.
InitHeld ==
  /\ config = FEATURE_FLAGS
  /\ env = [f \in FeatureFlagName |-> Undefined]
  /\ last = [kind |-> "none"]
  /\ metrics = << >>
  /\ monitorEnabled = TRUE
  /\ calls = [c \in CallIds |-> IdleCall]
  /\ insertedMetrics = NoInsertions
  /\ entries = << >>
  /\ auditEnabled = TRUE
  /\ insertedEntries = NoInsertions
  /\ now = 0
  /\ steps = 0
  /\ held = NoList
  /\ baseline = [f \in FeatureFlagName \cup UnknownNames, u \in Users |->
                   canViewFeature(f, u)]

Times == 0..MaxTime

HeldQueries == {<< >>, [userId |-> ""], [flag |-> "ADVANCED_ANALYTICS"]}

\* an append to, or a clear of, one of the two buffers
ChangeBuffers ==
  \/ RecordAny
  \/ MonitorClear
  \/ LogCheckOne
  \/ LogEnableAudit
  \/ AuditClear

\* a query of the monitor
QueryMonitor ==
  \/ GetMetrics
  \/ GetMetricsByOperation(OperationNames)
  \/ GetMetricsByTimeRange(Times)
  \/ GetOperationStats({"canViewFeature"})
  \/ GetAllStats

\* a query of the audit log
QueryAudit ==
  \/ GetEntries
  \/ GetEntriesByFlag(AuditFlags)
  \/ GetEntriesByUser({"a"})
  \/ GetEntriesByTimeRange(Times)
  \/ GetEntriesByAction({"check"})
  \/ HoldRecentEntries({1})
  \/ HoldSearch(HeldQueries)
  \/ GetStats

NextHeld ==
  \/ ChangeBuffers
  \/ QueryMonitor
  \/ QueryAudit
  \/ PopHeld
  \/ Tick

SpecHeld == InitHeld /\ [][NextHeld]_vars

(***************************************************************************)
(* Properties of the resolver                                              *)
(***************************************************************************)
LastIsResolve == last.kind = "canViewFeature"

RuleListOf(flag) == config[flag].items

RoleConditionHolds(rule, user) ==
  \/ "userRoles" \notin DOMAIN rule
  \/ user.role \in {rule.userRoles.items[i] : i \in 1..Len(rule.userRoles.items)}

\* hash / 4294967295 < n / d, as hash * d + n < n * 2^32: the third base-65536
\* digit of hash * d + n is below n
BucketBelow(hash, p) ==
  ((hash[1] * p.d + ((hash[2] * p.d + p.n) \div 65536)) \div 65536) < p.n

PercentageConditionHolds(rule, flag, user) ==
  \/ "percentageOfUsers" \notin DOMAIN rule
  \/ BucketBelow(MurmurTable[HashKey(flag, user.id)], rule.percentageOfUsers)

RuleMatches(rule, flag, user) ==
  RoleConditionHolds(rule, user) /\ PercentageConditionHolds(rule, flag, user)

IsRuleList(flag) == flag \in DOMAIN config /\ config[flag].type = "array"

IsLiteral(flag) == flag \in DOMAIN config /\ config[flag].type = "boolean"

\* C1: for a flag defined as a rule list, canViewFeature returns true iff at
\* least one rule of the list matches the user (OR across rules); for an
\* empty rule list it returns false for every user.
C1_OrAcrossRules ==
  /\ \A f \in DOMAIN config, u \in Users :
       IsRuleList(f) =>
         /\ canViewFeature(f, u) =
              Return(\E i \in 1..Len(RuleListOf(f)) : RuleMatches(RuleListOf(f)[i], f, u))
         /\ RuleListOf(f) = << >> => canViewFeature(f, u) = Return(FALSE)
  /\ LastIsResolve /\ IsRuleList(last.flag) =>
       last.outcome =
         Return(\E i \in 1..Len(RuleListOf(last.flag)) :
                  RuleMatches(RuleListOf(last.flag)[i], last.flag, last.user))

\* a call on a list of two rules of which only the second matches has
\* returned true
C1_Witness ==
  /\ LastIsResolve /\ IsRuleList(last.flag)
  /\ Len(RuleListOf(last.flag)) = 2
  /\ ~RuleMatches(RuleListOf(last.flag)[1], last.flag, last.user)
  /\ RuleMatches(RuleListOf(last.flag)[2], last.flag, last.user)
  /\ last.outcome = Return(TRUE)

\* C2: a rule matches a user iff every condition present in it holds: the
\* role is in userRoles (when present) AND hash("<flag>-<id>") / 4294967295 is
\* strictly below percentageOfUsers (when present); an absent condition
\* passes.  {userRoles: [user], percentageOfUsers: 0.25} does not match a
\* user-role caller whose bucket is >= 0.25, and percentageOfUsers 0 matches
\* nobody.
C2_AndWithinRule ==
  /\ \A f \in DOMAIN config, u \in Users :
       IsRuleList(f) =>
         \A i \in 1..Len(RuleListOf(f)) :
           LET rule == RuleListOf(f)[i]
           IN  /\ checkRule(rule, f, u) = RuleMatches(rule, f, u)
               /\ Field(rule, "percentageOfUsers") = Num(0, 1) => ~checkRule(rule, f, u)
  /\ LastIsResolve /\ IsRuleList(last.flag) /\ Len(RuleListOf(last.flag)) = 1 =>
       last.outcome = Return(RuleMatches(RuleListOf(last.flag)[1], last.flag, last.user))

\* the shipped MULTIPLE_ALLOWANCES flag was resolved for a user-role caller
\* whose bucket is >= 0.25: the role condition of the first rule holds, the
\* rule does not match, and the call returned false
C2_Witness ==
  /\ config = FEATURE_FLAGS
  /\ LastIsResolve /\ last.flag = "MULTIPLE_ALLOWANCES" /\ last.user.role = "user"
  /\ RoleConditionHolds(RuleListOf(last.flag)[1], last.user)
  /\ ~BucketBelow(MurmurTable[HashKey(last.flag, last.user.id)], Num(1, 4))
  /\ last.outcome = Return(FALSE)

\* C3: for a flag whose definition is a literal boolean, canViewFeature
\* returns that boolean for every user, whatever the id and the role.
C3_LiteralBoolean ==
  /\ \A f \in DOMAIN config, u \in Users :
       IsLiteral(f) => canViewFeature(f, u) = Return(config[f].value)
  /\ LastIsResolve /\ IsLiteral(last.flag) =>
       last.outcome = Return(config[last.flag].value)

\* a literal false flag was resolved for an admin and the call returned false
C3_Witness ==
  /\ LastIsResolve /\ IsLiteral(last.flag)
  /\ ~config[last.flag].value
  /\ last.user.role = "admin"
  /\ last.outcome = Return(FALSE)

\* C5: when an override value is present for a flag (NEXT_PUBLIC_FF_<FLAG> set
\* to a non-empty value), resolving the flag returns the override value for
\* every user, without consulting rules, role or hash.
C5_OverrideWins ==
  LastIsResolve /\ last.override # Undefined =>
    last.outcome = Return(last.override.value)

\* C6: resolving a flag name that is absent from the flag table ends in an
\* error for every user; it never returns false or any other boolean.
C6_UnknownFlagIsError ==
  /\ \A f \in UnknownNames, u \in Users :
       f \notin DOMAIN config => canViewFeature(f, u).kind = "throw"
  /\ LastIsResolve /\ last.flag \notin DOMAIN config => last.outcome.kind = "throw"

\* an unknown name was resolved and the call raised a TypeError
C6_Witness ==
  /\ LastIsResolve
  /\ last.flag = "UNKNOWN_FLAG"
  /\ last.outcome = Throw("TypeError")

(***************************************************************************)
(* Properties of the resolver among the other operations                   *)
(***************************************************************************)
\* C4: for every flag and every user, canViewFeature returns the same boolean
\* on every call, whatever operations are interleaved between the calls
\* (other resolutions, measure / recordMetric, audit log calls, setEnabled,
\* clear, changes of the environment): in every reachable state the outcome
\* for (flag, user) is the outcome it had at start-up, and so is the outcome
\* the latest call returned.
C4_SameResultOnEveryCall ==
  /\ \A f \in FeatureFlagName \cup UnknownNames, u \in Users :
       canViewFeature(f, u) = baseline[f, u]
  /\ LastIsResolve => last.outcome = baseline[last.flag, last.user]

\* a rule-list flag was resolved after the environment and the audit log
\* had changed, and returned a boolean
C4_Witness ==
  /\ LastIsResolve
  /\ last.flag = "MULTIPLE_ALLOWANCES"
  /\ last.outcome.kind = "return"
  /\ last.override # Undefined
  /\ Len(entries) > 0

(***************************************************************************)
(* Properties of the monitor                                               *)
(***************************************************************************)
DoneCalls == {c \in CallIds : calls[c].pc = "done"}

\* the metadata of a failure sample: the given metadata plus the error text
IsMetadataPlusError(recorded, given, error) ==
  /\ recorded.type = "object"
  /\ "error" \in DOMAIN recorded.props
  /\ recorded.props["error"] =
       (IF error.type = "Error" THEN error.message ELSE error.value)
  /\ LET givenKeys == IF given = Undefined THEN {} ELSE DOMAIN given.props
     IN  /\ DOMAIN recorded.props = givenKeys \cup {"error"}
         /\ \A k \in givenKeys \ {"error"} : recorded.props[k] = given.props[k]

\* C7: with the collector enabled for the whole call, measure(name, op,
\* metadata) ends with exactly op's own outcome (the value on success, the
\* same error on failure) and has by then appended exactly one sample with
\* operationName = name; on failure the sample's metadata is the given
\* metadata plus an error description.
C7_MeasureRecordsOnce ==
  \A c \in DoneCalls :
    calls[c].seenEnabled = {TRUE} =>
      /\ calls[c].result = calls[c].fn
      /\ Len(calls[c].pushed) = 1
      /\ calls[c].pushed[1].operationName = calls[c].operationName
      /\ calls[c].fn.kind = "return" =>
           calls[c].pushed[1].metadata = calls[c].metadata
      /\ calls[c].fn.kind = "throw" =>
           IsMetadataPlusError(calls[c].pushed[1].metadata, calls[c].metadata,
                               calls[c].fn.error)

\* a call whose operation failed, made with metadata while the collector was
\* enabled throughout, has ended and pushed its sample
C7_Witness ==
  \E c \in DoneCalls :
    /\ calls[c].seenEnabled = {TRUE}
    /\ calls[c].fn.kind = "throw"
    /\ calls[c].metadata # Undefined
    /\ calls[c].result = calls[c].fn
    /\ Len(calls[c].pushed) = 1
    /\ metrics = calls[c].pushed

\* C8: with the collector disabled, measure(name, op) is a pass-through: it
\* ends with op's own result or error and the sample buffer is left unchanged
\* (no sample recorded, none evicted).  Stated for every call that started
\* while the collector was disabled.
C8_DisabledPassThrough ==
  /\ [](\A c \in DoneCalls :
          ~calls[c].startedEnabled =>
            calls[c].result = calls[c].fn /\ calls[c].pushed = << >>)
  /\ [][\A c \in CallIds :
          (/\ calls[c].pc = "awaiting"
           /\ ~calls[c].startedEnabled
           /\ calls'[c].pc = "done") => metrics' = metrics]_vars

\* a call whose operation failed was made and has ended while the collector
\* was disabled: it ended with the operation's error and pushed nothing
C8_Witness ==
  \E c \in DoneCalls :
    /\ calls[c].seenEnabled = {FALSE}
    /\ calls[c].fn.kind = "throw"
    /\ calls[c].result = calls[c].fn
    /\ calls[c].pushed = << >>

(***************************************************************************)
(* Properties of the bounded buffers                                       *)
(***************************************************************************)
PushCount(history) == history.fillers + Len(history.log)

AllFillerSamples == [i \in 1..maxMetrics |-> FillerSample(i)]

AllFillerEntries == [i \in 1..maxEntries |-> FillerEntry(i)]

\* every item pushed since the buffer was last empty, in the order of the pushes
InsertedMetrics ==
  SubSeq(AllFillerSamples, 1, insertedMetrics.fillers) \o insertedMetrics.log

InsertedEntries ==
  SubSeq(AllFillerEntries, 1, insertedEntries.fillers) \o insertedEntries.log

\* the last n items of a sequence of at least n items
LastN(seq, n) == SubSeq(seq, Len(seq) - n + 1, Len(seq))

\* C9: in every reachable state, after any sequence of measure, recordMetric,
\* logCheck, logStateChange, logEnable, logDisable, setEnabled and clear, the
\* telemetry buffer holds at most 1000 samples and the audit buffer at most
\* 10000 entries.
C9_BuffersWithinCapacity ==
  /\ Len(metrics) <= 1000
  /\ Len(entries) <= 10000

\* more than 1000 samples have been pushed and 1000 are held
C9_Witness ==
  /\ PushCount(insertedMetrics) > 1000
  /\ Len(metrics) = 1000

\* C10: after C + k insertions (k >= 0) into an enabled, initially empty
\* buffer of capacity C, the buffer holds exactly the last C inserted items in
\* insertion order, oldest first (and all of them while fewer than C were
\* inserted), for the telemetry buffer and for the audit log.
C10_FifoEviction ==
  /\ metrics = LastN(InsertedMetrics, Min(Len(InsertedMetrics), maxMetrics))
  /\ entries = LastN(InsertedEntries, Min(Len(InsertedEntries), maxEntries))

\* 10001 entries have been pushed into the audit log: the first one is gone
\* and the log holds the second to the last
C10_Witness ==
  /\ PushCount(insertedEntries) = maxEntries + 1
  /\ Len(entries) = maxEntries
  /\ entries[1] = FillerEntry(2)
  /\ entries[maxEntries] = insertedEntries.log[2]

(***************************************************************************)
(* Properties of the audit log                                             *)
(***************************************************************************)
LogCalls == {"logCheck", "logStateChange", "logEnable", "logDisable"}

LastIsLog == last.kind \in LogCalls

\* a step of one of the four log calls
LogStep == LogCheckAudit \/ LogStateChangeAudit \/ LogEnableAudit \/ LogDisableAudit

\* C11: a logCheck, logStateChange, logEnable or logDisable call made while
\* audit logging is disabled leaves the retained entries unchanged, and so
\* does every setEnabled call: entries recorded before logging was disabled
\* are all there, in the same order, when it is enabled again.
C11_DisabledLogsNothing ==
  /\ [][(~auditEnabled /\ LogStep) => entries' = entries]_vars
  /\ [][AuditSetEnabled => entries' = entries]_vars
  /\ [](LastIsLog /\ ~last.enabled => last.pushed = << >>)

\* an entry was recorded, logging was disabled, and a log call made since
\* has pushed nothing: the log still holds the entry
C11_Witness ==
  /\ LastIsLog /\ ~last.enabled
  /\ ~auditEnabled
  /\ last.pushed = << >>
  /\ Len(entries) = 1
  /\ insertedEntries.log = entries

\* C12: with logging enabled, logStateChange(flag, user, oldValue, newValue)
\* appends one entry whose action is "toggle" when oldValue differs from
\* newValue and "check" when they are equal, carrying both values; logCheck,
\* logEnable and logDisable append one entry with action check / enable /
\* disable and newValue result / true / false.
C12_EntryOfEachLogCall ==
  LastIsLog /\ last.enabled =>
    /\ Len(last.pushed) = 1
    /\ LET entry == last.pushed[1]
           args  == last.args
       IN  /\ entry.flag = args.flag /\ entry.user = args.user
           /\ last.kind = "logStateChange" =>
                /\ entry.action = (IF args.oldValue # args.newValue THEN "toggle" ELSE "check")
                /\ entry.oldValue = args.oldValue
                /\ entry.newValue = args.newValue
           /\ last.kind = "logCheck" =>
                entry.action = "check" /\ entry.newValue = args.result
           /\ last.kind = "logEnable" =>
                entry.action = "enable" /\ entry.newValue = TRUE
           /\ last.kind = "logDisable" =>
                entry.action = "disable" /\ entry.newValue = FALSE

\* logStateChange was called with equal values and recorded a check that
\* carries both
C12_Witness ==
  /\ last.kind = "logStateChange" /\ last.enabled
  /\ last.args.oldValue = TRUE /\ last.args.newValue = TRUE
  /\ last.pushed[1].action = "check"
  /\ last.pushed[1].oldValue = TRUE
  /\ entries[Len(entries)] = last.pushed[1]

\* C13: no two entries ever appended, retained or evicted, have the same id,
\* also when they were logged within the same millisecond.
C13_UniqueIds ==
  \A i, j \in DOMAIN insertedEntries.log :
    i # j => insertedEntries.log[i].id # insertedEntries.log[j].id

\* an entry satisfies every criterion that the query gives
Satisfies(entry, query) ==
  /\ "flag" \in DOMAIN query => entry.flag = query.flag
  /\ "userId" \in DOMAIN query => entry.user.id = query.userId
  /\ "action" \in DOMAIN query => entry.action = query.action
  /\ "startDate" \in DOMAIN query => entry.timestamp >= query.startDate
  /\ "endDate" \in DOMAIN query => entry.timestamp <= query.endDate

\* C14: search(query) returns exactly the retained entries that satisfy every
\* criterion given in the query (flag, user id and action equal, timestamp
\* within the inclusive bounds), in insertion order, for every combination of
\* criteria and every value of a criterion.
C14_SearchReturnsMatches ==
  /\ \A query \in Queries :
       search(query) = SelectSeq(entries, LAMBDA entry : Satisfies(entry, query))
  /\ last.kind = "search" =>
       \A i \in DOMAIN last.outcome : Satisfies(last.outcome[i], last.args)

\* C15: for every n >= 0, getRecentEntries(n) returns the last min(n, size)
\* retained entries in insertion order, so never more than n entries.
C15_RecentReturnsLastN ==
  /\ \A count \in Counts :
       getRecentEntries(count) = LastN(entries, Min(count, Len(entries)))
  /\ last.kind = "getRecentEntries" => Len(last.outcome) <= last.args

RECURSIVE SumOf(_, _)
SumOf(counts, keys) ==
  IF keys = {} THEN 0
  ELSE LET k == CHOOSE key \in keys : TRUE
       IN  counts[k] + SumOf(counts, keys \ {k})

Timestamps == {entries[i].timestamp : i \in DOMAIN entries}

\* the properties of a getStats result, for the log it was computed from
StatsDescribe(stats) ==
  /\ stats.totalEntries = Len(entries)
  /\ SumOf(stats.entriesByAction, DOMAIN stats.entriesByAction) = Len(entries)
  /\ SumOf(stats.entriesByFlag, DOMAIN stats.entriesByFlag) = Len(entries)
  /\ \A a \in DOMAIN stats.entriesByAction :
       stats.entriesByAction[a] = Cardinality({i \in DOMAIN entries : entries[i].action = a})
  /\ \A f \in DOMAIN stats.entriesByFlag :
       stats.entriesByFlag[f] = Cardinality({i \in DOMAIN entries : entries[i].flag = f})
  /\ stats.uniqueUsers = Cardinality({entries[i].user.id : i \in DOMAIN entries})
  /\ (stats.dateRange.start = Null) = (entries = << >>)
  /\ (stats.dateRange.end = Null) = (entries = << >>)
  /\ entries # << >> =>
       /\ stats.dateRange.start.time \in Timestamps
       /\ stats.dateRange.end.time \in Timestamps
       /\ \A t \in Timestamps :
            stats.dateRange.start.time <= t /\ t <= stats.dateRange.end.time

\* C18: in every reachable state getStats() reports totalEntries = number of
\* retained entries = sum of the per-action counts = sum of the per-flag
\* counts, uniqueUsers = number of distinct user ids among the retained
\* entries, and dateRange.start / end = the minimum / maximum retained
\* timestamp, both null exactly when the log is empty.
C18_StatsDescribeTheLog == StatsDescribe(getStats)

\* getStats was called on a log of two entries of two users, recorded at two
\* different times
C18_Witness ==
  /\ last.kind = "getStats"
  /\ last.outcome = getStats
  /\ Len(entries) = 2
  /\ last.outcome.uniqueUsers = 2
  /\ last.outcome.dateRange.start # last.outcome.dateRange.end

(***************************************************************************)
(* Properties of the monitor's statistics                                  *)
(***************************************************************************)
\* the durations of the retained samples of an operation, in buffer order
DurationsOf(operationName) ==
  LET selected == SelectSeq(metrics, LAMBDA m : m.operationName = operationName)
  IN  [i \in DOMAIN selected |-> selected[i].durationMs]

\* ceil(p / 100 * n), clamped to 1..n: the rank of the p-th percentile
RankOf(p, n) == Max(1, Min(n, (p * n + 99) \div 100))

\* the number at the given rank of the list sorted ascending: fewer than rank
\* numbers are below it and at least rank numbers are not above it
AtRank(list, rank) ==
  CHOOSE d \in {list[i] : i \in DOMAIN list} :
    /\ Cardinality({i \in DOMAIN list : list[i] < d}) < rank
    /\ Cardinality({i \in DOMAIN list : list[i] <= d}) >= rank

PercentilesAreNearestRank(stats, durations) ==
  /\ stats.p50 = AtRank(durations, RankOf(50, Len(durations)))
  /\ stats.p95 = AtRank(durations, RankOf(95, Len(durations)))
  /\ stats.p99 = AtRank(durations, RankOf(99, Len(durations)))
  /\ {durations[i] : i \in DOMAIN durations} = 1..100 /\ Len(durations) = 100 =>
       stats.p50 = 50 /\ stats.p95 = 95 /\ stats.p99 = 99

\* C16: for an operation with n >= 1 retained samples, getOperationStats
\* reports p50, p95 and p99 equal to the element at index ceil(p/100 * n) - 1
\* (clamped to [0, n-1]) of the operation's durations sorted ascending; for
\* the durations 1..100 that is p50 = 50, p95 = 95, p99 = 99.
C16_PercentilesNearestRank ==
  \A operationName \in StatsNames :
    DurationsOf(operationName) # << >> =>
      PercentilesAreNearestRank(getOperationStats(operationName),
                                DurationsOf(operationName))

\* getOperationStats was called for an operation whose retained durations
\* are 1..100, recorded in another order, and reported 50, 95 and 99
C16_Witness ==
  /\ last.kind = "getOperationStats"
  /\ last.outcome = getOperationStats(last.args)
  /\ Len(DurationsOf(last.args)) = 100
  /\ {DurationsOf(last.args)[i] : i \in 1..100} = 1..100
  /\ DurationsOf(last.args)[1] > DurationsOf(last.args)[100]
  /\ last.outcome.p50 = 50 /\ last.outcome.p95 = 95 /\ last.outcome.p99 = 99

\* C17: getOperationStats(name) returns null exactly when no retained sample
\* has the operation name, also after the samples of that name were cleared,
\* and otherwise a record whose count is the number of retained samples of
\* that name; it never returns a record of zeros for an operation without
\* samples.
C17_NoSamplesNoStats ==
  \A operationName \in StatsNames :
    LET stats == getOperationStats(operationName)
        kept  == {i \in DOMAIN metrics : metrics[i].operationName = operationName}
    IN  /\ (stats = Null) = (kept = {})
        /\ stats # Null => stats.count = Cardinality(kept)

\* getOperationStats returned null for an operation whose samples have all
\* been cleared
C17_Witness ==
  /\ last.kind = "getOperationStats"
  /\ last.args = "canViewFeature"
  /\ last.outcome = Null
  /\ metrics = << >>

(***************************************************************************)
(* Properties of the snapshot comparison                                   *)
(***************************************************************************)
LastIsCompare == last.kind = "compareSnapshots"

Elements(list) == {list[i] : i \in DOMAIN list}

\* the list the documented classification puts a flag in, for a flag present in either snapshot
ExpectedList(flags1, flags2, flag) ==
  IF flag \notin DOMAIN flags1 THEN "added"
  ELSE IF flag \notin DOMAIN flags2 THEN "removed"
  ELSE IF flags1[flag] # flags2[flag] THEN "changed"
  ELSE "unchanged"

\* C19: compareSnapshots(s1, s2) places every flag present in s1.flags or in
\* s2.flags in exactly one of added (absent in s1, present in s2), removed
\* (present in s1, absent in s2), changed (present in both, different value)
\* and unchanged (present in both, same value), and lists a flag as unchanged
\* only when it is present in both snapshots.
C19_EveryFlagInOneList ==
  LastIsCompare =>
    LET flags1 == last.args[1].flags
        flags2 == last.args[2].flags
        out    == last.outcome
    IN  /\ \A flag \in DOMAIN flags1 \cup DOMAIN flags2 :
             \A list \in {"added", "removed", "changed", "unchanged"} :
               LET places == {i \in DOMAIN out[list] : out[list][i] = flag}
               IN  Cardinality(places) =
                     (IF list = ExpectedList(flags1, flags2, flag) THEN 1 ELSE 0)
        /\ \A flag \in Elements(out.unchanged) :
             flag \in DOMAIN flags1 \cap DOMAIN flags2

\* C20: for every user, the snapshot s = createSnapshot(user) compared with
\* itself gives empty added, removed and changed lists, unchanged equal to
\* the set of all known flags, and timeDelta 0.
C20_SnapshotDiffIdentity ==
  /\ \A user \in Users :
       LET s   == createSnapshot(user)
           out == compareSnapshots(s, s)
       IN  /\ out.added = << >> /\ out.removed = << >> /\ out.changed = << >>
           /\ Elements(out.unchanged) = FeatureFlagName
           /\ Len(out.unchanged) = Cardinality(FeatureFlagName)
           /\ out.timeDelta = 0
  /\ LastIsCompare /\ last.args[1] = last.args[2]
       /\ DOMAIN last.args[1].flags = FeatureFlagName =>
         /\ last.outcome.added = << >>
         /\ last.outcome.removed = << >>
         /\ last.outcome.changed = << >>
         /\ Elements(last.outcome.unchanged) = FeatureFlagName
         /\ Len(last.outcome.unchanged) = Cardinality(FeatureFlagName)
         /\ last.outcome.timeDelta = 0

\* a snapshot created for a user who sees some flags and not others, after
\* time had passed, was compared with itself
C20_Witness ==
  /\ LastIsCompare /\ last.args[1] = last.args[2]
  /\ DOMAIN last.args[1].flags = FeatureFlagName
  /\ last.args[1].timestamp > 0
  /\ \E f, g \in FeatureFlagName : last.args[1].flags[f] /\ ~last.args[1].flags[g]
  /\ last.outcome.unchanged = ObjectKeys
  /\ last.outcome.timeDelta = 0

(***************************************************************************)
(* Properties of the comparison of users                                   *)
(***************************************************************************)
\* the flags on which the resolver gives two users the same answer
EqualFlags(a, b) ==
  {f \in FeatureFlagName : canViewFeature(f, a) = canViewFeature(f, b)}

\* compareUsers has one record per flag of the table, each holding the two
\* resolved states and whether they differ
OneRecordPerFlag(comparisons, a, b) ==
  /\ Len(comparisons) = Cardinality(FeatureFlagName)
  /\ \A f \in FeatureFlagName :
       Cardinality({i \in DOMAIN comparisons : comparisons[i].flag = f}) = 1
  /\ \A i \in DOMAIN comparisons :
       LET c == comparisons[i]
       IN  /\ c.flag \in FeatureFlagName
           /\ Return(c.user1State) = canViewFeature(c.flag, a)
           /\ Return(c.user2State) = canViewFeature(c.flag, b)
           /\ c.different = (c.flag \notin EqualFlags(a, b))

\* the fraction is 100 * (flags with equal state) / (flags), so it is 100 when
\* no flag differs, 0 when every flag differs, and within [0, 100]
IsSimilarityOf(similarity, a, b) ==
  /\ similarity.d = Cardinality(FeatureFlagName)
  /\ similarity.n = 100 * Cardinality(EqualFlags(a, b))
  /\ 0 <= similarity.n /\ similarity.n <= 100 * similarity.d
  /\ EqualFlags(a, b) = FeatureFlagName => similarity.n = 100 * similarity.d
  /\ EqualFlags(a, b) = {} => similarity.n = 0
  /\ a = b => similarity.n = 100 * similarity.d

\* C21: compareUsers(a, b) returns one record per known flag with different =
\* (the state for a differs from the state for b), and calculateSimilarity(a, b)
\* is 100 * (flags with equal state) / (flags): 100 when the two users resolve
\* alike on every flag, in particular when a = b, 0 when every flag differs,
\* and always within [0, 100].
C21_SimilarityOfUsers ==
  /\ last.kind = "compareUsers" =>
       OneRecordPerFlag(last.outcome, last.args[1], last.args[2])
  /\ last.kind = "calculateSimilarity" =>
       IsSimilarityOf(last.outcome, last.args[1], last.args[2])

\* calculateSimilarity has returned 0 for two users who differ on every flag
C21_Witness ==
  /\ last.kind = "calculateSimilarity"
  /\ EqualFlags(last.args[1], last.args[2]) = {}
  /\ last.outcome.n = 0


(***************************************************************************)
(* Properties of the validation of imported definitions                    *)
(***************************************************************************)
\* the places <<key, index>> of the rules of an imported object that hold
\* neither userRoles nor percentageOfUsers
RulesWithoutCondition(data) ==
  IF data.type # "object" THEN {}
  ELSE UNION {IF data.entries[e][2].type # "array" THEN {}
              ELSE {<<data.entries[e][1], i - 1>> :
                      i \in {k \in DOMAIN data.entries[e][2].items :
                               LET rule == data.entries[e][2].items[k]
                               IN  /\ IsObject(rule)
                                   /\ "userRoles" \notin DOMAIN rule
                                   /\ "percentageOfUsers" \notin DOMAIN rule}} :
              e \in DOMAIN data.entries}

\* the result holds an error that names the rule at the place
Names(result, place) ==
  \E i \in DOMAIN result.errors :
    /\ DOMAIN result.errors[i] = {"error", "key", "index"}
    /\ result.errors[i].key = place[1]
    /\ result.errors[i].index = place[2]

\* C22: a flag definition that contains a rule with neither userRoles nor
\* percentageOfUsers is rejected: validateImport returns valid = false with an
\* error naming that rule.
C22_RuleWithoutConditionRejected ==
  last.kind = "validateImport" =>
    \A place \in RulesWithoutCondition(last.args) :
      /\ ~last.outcome.valid
      /\ Names(last.outcome, place)

(***************************************************************************)
(* Properties of the bucket                                                *)
(***************************************************************************)
\* the last call evaluated a percentage condition that is present, so that the
\* key was hashed
LastIsPercentage ==
  last.kind = "userIsWithinPercentage" /\ last.args[2] # Undefined

\* the hash of the key built from the flag name and the id of the last call
LastHash == murmurhash(HashKey(last.args[1], last.args[3]))

\* hash / 4294967295 < 1
BucketBelowOne(hash) == QuotientLess(hash, MAX_UINT_32, Num(1, 1))

\* C23: for every flag name and user id the hash of "<flagName>-<userId>" is
\* an unsigned 32-bit integer and the bucket hash / 4294967295 lies in [0, 1):
\* it is never negative and never equal to 1.
C23_BucketInHalfOpenInterval ==
  LastIsPercentage =>
    /\ IsWord32(LastHash)
    /\ BucketBelowOne(LastHash)


(***************************************************************************)
(* Properties of the helper views                                          *)
(***************************************************************************)
\* the flags the resolver enables for a user
EnabledFor(user) ==
  {f \in FeatureFlagName : canViewFeature(f, user) = Return(TRUE)}

\* a list holds exactly the flags of a set, each once
ListsOnce(list, flags) ==
  /\ Elements(list) = flags
  /\ Len(list) = Cardinality(flags)

\* C24: for every user the helper views agree with the resolver: the summary
\* holds canViewFeature(f, user) for every known flag f, getEnabledFeatures is
\* exactly the flags the resolver enables, getDisabledFeatures is exactly the
\* others, so the two lists are disjoint and together hold every known flag
\* once.
C24_HelpersAgreeWithResolver ==
  /\ last.kind = "getFeatureFlagSummary" =>
       /\ DOMAIN last.outcome = FeatureFlagName
       /\ \A f \in FeatureFlagName :
            Return(last.outcome[f]) = canViewFeature(f, last.args)
  /\ last.kind = "getEnabledFeatures" =>
       /\ ListsOnce(last.outcome, EnabledFor(last.args))
       /\ Elements(last.outcome) \cap Elements(getDisabledFeatures(last.args)) = {}
       /\ Len(last.outcome) + Len(getDisabledFeatures(last.args))
            = Cardinality(FeatureFlagName)
  /\ last.kind = "getDisabledFeatures" =>
       /\ ListsOnce(last.outcome, FeatureFlagName \ EnabledFor(last.args))
       /\ Elements(last.outcome) \cap Elements(getEnabledFeatures(last.args)) = {}
       /\ Elements(last.outcome) \cup Elements(getEnabledFeatures(last.args))
            = FeatureFlagName

\* getDisabledFeatures has returned some flags and left out others, for a
\* user whose flags depend on the rules
C24_Witness ==
  /\ last.kind = "getDisabledFeatures"
  /\ last.outcome # << >>
  /\ Len(last.outcome) < Cardinality(FeatureFlagName)
  /\ \E f \in Elements(last.outcome) : config[f].type = "array"

(***************************************************************************)
(* Properties of the component                                             *)
(***************************************************************************)
LastIsRender == last.kind = "FeatureEnabled"

\* the flag of the last render is enabled for its user
RenderEnabled == canViewFeature(last.args[1].featureFlag, last.args[2]) = Return(TRUE)

\* invert was given as true
RenderInverted ==
  "invert" \in DOMAIN last.args[1] /\ last.args[1].invert = Bool(TRUE)

\* C25: FeatureEnabled renders its children if and only if (the flag is
\* enabled for the current user) XOR invert; otherwise it renders the
\* fallback, which is nothing when no fallback is given.  Children and
\* fallback are never both rendered.
C25_ChildrenIffEnabledXorInvert ==
  LastIsRender =>
    /\ last.outcome.type = "fragment"
    /\ (last.outcome.children = Children) = (RenderEnabled # RenderInverted)
    /\ (last.outcome.children # Children) =>
         last.outcome.children =
           (IF "fallback" \in DOMAIN last.args[1] THEN Fallback ELSE Null)
    /\ last.outcome.children \in {Children, Fallback, Null}

\* a disabled flag with invert has rendered the children
C25_Witness ==
  /\ LastIsRender
  /\ ~RenderEnabled
  /\ RenderInverted
  /\ last.outcome = Fragment(Children)

(***************************************************************************)
(* Properties of calls in flight at the same time                          *)
(***************************************************************************)
\* the number of times an item occurs in a list
Occurrences(list, item) == Cardinality({i \in DOMAIN list : list[i] = item})

\* a buffer after one append: the item is last, everything before it is
\* kept, except the single oldest item when the buffer was full
AppendedOne(before, after, item, capacity) ==
  /\ Len(after) = Min(Len(before) + 1, capacity)
  /\ after[Len(after)] = item
  /\ SubSeq(after, 1, Len(after) - 1)
       = (IF Len(before) < capacity THEN before
          ELSE SubSeq(before, 2, Len(before)))

\* a whole sample: the four fields of PerformanceMetrics
IsSample(m) == DOMAIN m = {"operationName", "durationMs", "timestamp", "metadata"}

\* a whole entry: the fields of an audit entry
IsEntry(e) ==
  {"id", "flag", "user", "action", "newValue", "timestamp"} \subseteq DOMAIN e

\* C26: when several measure calls (and several audit log calls) are in flight
\* at the same time and complete in any order, every completed call's sample
\* or entry is appended exactly once, none is lost, duplicated or partially
\* written, and when the buffer is full each append evicts exactly the single
\* oldest item and no more.
C26_ConcurrentAppendsOnce ==
  /\ [](/\ \A c \in DoneCalls :
             /\ Len(calls[c].pushed) = 1
             /\ IsSample(calls[c].pushed[1])
             /\ calls[c].pushed[1].operationName = calls[c].operationName
             /\ Occurrences(insertedMetrics.log, calls[c].pushed[1])
                  = Cardinality({d \in DoneCalls : calls[d].pushed = calls[c].pushed})
        /\ Len(insertedMetrics.log) = Cardinality(DoneCalls)
        /\ \A i \in DOMAIN insertedEntries.log : IsEntry(insertedEntries.log[i]))
  /\ [][\A c \in CallIds :
          (calls[c].pc = "awaiting" /\ calls'[c].pc = "done") =>
            AppendedOne(metrics, metrics', calls'[c].pushed[1], maxMetrics)]_vars
  /\ [][(LogCheckOne \/ LogDisableOne) =>
          /\ Len(last'.pushed) = 1
          /\ AppendedOne(entries, entries', last'.pushed[1], maxEntries)]_vars

\* two calls were in flight at once; the one that started later completed
\* first, both have completed, and the second completion evicted the oldest
\* sample of the full buffer
C26_Witness ==
  /\ DoneCalls = {1, 2}
  /\ calls[1].pushed[1].timestamp > calls[2].pushed[1].timestamp
  /\ insertedMetrics.log = calls[2].pushed \o calls[1].pushed
  /\ Len(metrics) = maxMetrics
  /\ metrics[1] = FillerSample(2)
  /\ metrics[maxMetrics] = calls[1].pushed[1]

(***************************************************************************)
(* Properties of toggling while calls are in flight                        *)
(***************************************************************************)
\* the calls during which setEnabled was called
ToggledCalls == {c \in CallIds : calls[c].pc # "idle" /\ calls[c].seenEnabled = BOOLEAN}

\* the samples are held in the order of their appends: the buffer is the tail
\* of the pushes, and the times of the appends never decrease along it
InAppendOrder ==
  /\ metrics = LastN(InsertedMetrics, Min(Len(InsertedMetrics), maxMetrics))
  /\ \A i \in DOMAIN metrics :
       i > 1 => metrics[i - 1].timestamp <= metrics[i].timestamp

\* C27: calling setEnabled while measure calls are in flight cannot corrupt
\* state: under every interleaving each call in flight still ends with its
\* wrapped operation's own outcome and contributes at most one sample, and the
\* buffer stays a sequence of whole samples within capacity, in append order.
C27_ToggleInFlightKeepsState ==
  /\ \A c \in DoneCalls :
       /\ calls[c].result = calls[c].fn
       /\ Len(calls[c].pushed) <= 1
  /\ \A i \in DOMAIN metrics : IsSample(metrics[i])
  /\ Len(metrics) <= maxMetrics
  /\ InAppendOrder

\* a call that failed was started while the collector was enabled and ended
\* after setEnabled(false): it ended with the operation's error, and the
\* buffer holds whole samples pushed by others
C27_Witness ==
  \E c \in ToggledCalls \cap DoneCalls :
    /\ calls[c].startedEnabled
    /\ ~monitorEnabled
    /\ calls[c].fn.kind = "throw"
    /\ calls[c].result = calls[c].fn
    /\ Len(calls[c].pushed) <= 1

(***************************************************************************)
(* Properties of the lists that queries return                             *)
(***************************************************************************)
\* C28: a list returned by a query (getMetrics, getMetricsByOperation,
\* getMetricsByTimeRange, getEntries, getEntriesBy*, getRecentEntries, search
\* with any query, the empty query included) is a point-in-time snapshot:
\* later appends, evictions or clears never change a list that was already
\* returned, and changing a returned list never changes the buffer.
C28_ReturnedListsAreSnapshots ==
  /\ [][ChangeBuffers => held'.list = held.list]_vars
  /\ [][PopHeld => entries' = entries /\ metrics' = metrics]_vars



\* the positions of the retained samples taken from start to end, both included
InRange(start, end) ==
  {i \in DOMAIN metrics : start <= metrics[i].timestamp /\ metrics[i].timestamp <= end}

\* list holds the samples at these positions, and no others, in buffer order
IsSelection(list, positions) ==
  /\ Len(list) = Cardinality(positions)
  /\ \A i \in positions : list[Cardinality({j \in positions : j <= i})] = metrics[i]

\* C29: the queries and statistics of the monitor and of the audit log leave
\* both buffers, the order of their records and both enabled flags as they
\* were, and getMetricsByTimeRange(start, end) returns exactly the retained
\* samples with start <= timestamp <= end, in buffer order.
C29_QueriesLeaveBuffers ==
  /\ [][QueryMonitor \/ QueryAudit =>
          /\ metrics' = metrics
          /\ entries' = entries
          /\ monitorEnabled' = monitorEnabled
          /\ auditEnabled' = auditEnabled]_vars
  /\ [][GetMetricsByTimeRange(Times) =>
          IsSelection(last'.outcome, InRange(last'.args[1], last'.args[2]))]_vars

\* a range of one instant returned the sample taken then and left out another
C29_Witness ==
  /\ last.kind = "getMetricsByTimeRange"
  /\ last.args[1] = last.args[2]
  /\ Len(last.outcome) = 1
  /\ last.outcome[1].timestamp = last.args[1]
  /\ Len(metrics) = 2


(***************************************************************************)
(* Properties of the enabled flag of the monitor                           *)
(***************************************************************************)
\* the measure calls that settle in this step
Settling == {c \in CallIds : calls[c].pc = "awaiting" /\ calls'[c].pc = "done"}

\* C30: the telemetry buffer grows only while the collector is enabled at the
\* moment of the append.  No step taken while the collector is disabled
\* changes the buffer or pushes a sample: not recordMetric, not any call on a
\* monitor that is disabled as constructed and has not been enabled yet, and
\* not the completion of a measure call that started while enabled and
\* completes after setEnabled(false).  A measure call that pushes a sample
\* started while enabled and completes while enabled, so one that started
\* while disabled never pushes, whatever the flag is when it completes.
C30_GrowsOnlyWhileEnabled ==
  /\ [][~monitorEnabled =>
          /\ metrics' = metrics
          /\ insertedMetrics' = insertedMetrics]_vars
  /\ [][\A c \in Settling :
          calls'[c].pushed # << >> => monitorEnabled /\ calls[c].startedEnabled]_vars
  /\ [](\A c \in DoneCalls : ~calls[c].startedEnabled => calls[c].pushed = << >>)

\* a measure call started while the collector was enabled and completed after
\* setEnabled(false): it pushed nothing and the buffer is still empty
C30_Witness ==
  \E c \in DoneCalls :
    /\ calls[c].startedEnabled
    /\ calls[c].seenEnabled = BOOLEAN
    /\ ~monitorEnabled
    /\ calls[c].pushed = << >>
    /\ metrics = << >>
    /\ InsertedMetrics = << >>

=============================================================================
